---- MODULE Spec2Model ----
(***************************************************************************)
(* Verification model of the pico_ui client-side state-synchronisation     *)
(* layer.  The module holds several components, each with its own          *)
(* specification over the same variables:                                  *)
(*   SpecSubmit    ActionHandler / SafeActionHandler handleSubmit          *)
(*   SpecContext   AppContext / VaultContext: loadBalances,                *)
(*                 loadVaultLimits, disconnectWallet                       *)
(*   SpecPreview   useActionPreview / useFlashLoanPreview / rebalance      *)
(*                 loadPreview with their timers                           *)
(*   SpecRebalance LowLevelRebalanceHandler loadMaxValue, handleSubmit     *)
(* A component that a specification does not run stays in its parked       *)
(* initial state.                                                          *)
(***************************************************************************)
EXTENDS Integers, Sequences, FiniteSets, TLC

\* ------------------------------------------------------------------ bounds
\* largest raw token amount (bigint) the model enumerates
MaxAmount == 2

\* "no value": null / undefined / not yet read
NONE == 0 - 1

Amounts == 0..MaxAmount

Min(a, b) == IF a < b THEN a ELSE b

Abs(a) == IF a < 0 THEN -a ELSE a

\* bigint arithmetic has no width: <<q, m>> with a * b = q * d + m and
\* 0 <= m < d for 0 <= a < d, computed without a product beyond 3 * d
RECURSIVE MulDivMod(_, _, _)
MulDivMod(a, b, d) ==
    IF b = 0 THEN <<0, 0>>
    ELSE LET h == MulDivMod(a, b \div 2, d)
             m == 2 * h[2] + (IF b % 2 = 1 THEN a ELSE 0)
         IN <<2 * h[1] + m \div d, m % d>>

\* (v * n) / d of bigints, v >= 0
MulDiv(v, n, d) == (v \div d) * n + MulDivMod(v % d, n, d)[1]

\* =====================================================================
\* Component: transaction submission (ActionHandler, SafeActionHandler)
\* =====================================================================
VARIABLES
    handler,        \* which component renders the form
    actionType,     \* prop actionType
    isWETH,         \* isWETHAddress(tokenAddress, currentNetwork)
    connected,      \* vault (signer contract) and address are both non-null
    amount,         \* parseUnits(amount, displayDecimals); NONE when it throws
    isMaxSelected,  \* useState isMaxSelected
    loading,        \* useState loading
    error,          \* useState error ("null" for null)
    success,        \* useState success ("null" for null)
    pc,             \* the await point handleSubmit is suspended at
    tokenBalance,   \* on-chain token.balanceOf(address)
    allowance,      \* on-chain allowance(address, spender)
    parsedAmount,   \* local parsedAmount of the running or last attempt
    needed,         \* local tokensNeeded / sharesNeeded
    balanceRead,    \* local balance (first balanceOf of the attempt)
    allowanceRead,  \* local currentAllowance
    maxBeforeTx,    \* local maxBeforeTx (NONE for undefined / not fetched)
    txs             \* transactions the attempt has sent, in order

submitVars == <<handler, actionType, isWETH, connected, amount, isMaxSelected,
                loading, error, success, pc, tokenBalance, allowance,
                parsedAmount, needed,
                balanceRead, allowanceRead, maxBeforeTx, txs>>

\* ---------------------------------------------------------------------
\* State of AppContext / VaultContext (address, balances, vault limits)
\* ---------------------------------------------------------------------
VARIABLES
    address,                \* AppContext address ("null" when disconnected)
    ethBalance,             \* VaultContext ethBalance
    sharesBalance,          \* VaultContext sharesBalance
    borrowTokenBalance,     \* VaultContext borrowTokenBalance
    collateralTokenBalance, \* VaultContext collateralTokenBalance
    isRefreshingBalances,   \* VaultContext isRefreshingBalances
    vaultLimits,            \* the ten limit fields set by loadVaultLimits
    balanceLoads,           \* loadBalances calls suspended at an await
    limitLoads,             \* loadVaultLimits calls suspended at Promise.all
    nextBalanceLoad,        \* number of the next loadBalances call
    nextLimitLoad           \* number of the next loadVaultLimits call

contextVars == <<address, ethBalance, sharesBalance, borrowTokenBalance,
                 collateralTokenBalance, isRefreshingBalances, vaultLimits,
                 balanceLoads, limitLoads, nextBalanceLoad, nextLimitLoad>>

\* ---------------------------------------------------------------------
\* State of a preview hook inside the form that hosts it
\* ---------------------------------------------------------------------
VARIABLES
    hook,         \* which hook / component computes the preview
    selection,    \* actionType / helperType / rebalanceType
    inputAmount,  \* amount / sharesToProcess (NONE for '' or null)
    elapsed,      \* ms since the effect on [amount, selection] last ran
    timers,       \* the pending setTimeout / setInterval of the effect
    reads,        \* preview reads issued on the lens contract, in order
    pending,      \* indices of the reads that have not settled
    previewData,  \* useState previewData
    changes       \* number of input events so far

previewVars == <<hook, selection, inputAmount, elapsed, timers, reads, pending,
                 previewData, changes>>

\* ---------------------------------------------------------------------
\* State of LowLevelRebalanceHandler
\* ---------------------------------------------------------------------
VARIABLES
    rebalanceType,  \* prop rebalanceType
    rbActionType,   \* prop actionType
    vaultMax,       \* on-chain maxLowLevelRebalance{Shares,Borrow,Collateral}()
    userBalance,    \* parseUnits(borrowTokenBalance | collateralTokenBalance)
    rbAllowance,    \* on-chain allowance(address, vaultAddress) of the provided token
    maxValue,       \* useState maxValue ({} for null, {v} for the bigint v)
    maxLoads,       \* loadMaxValue calls suspended at their await
    rbAmount,       \* useState amount ({} for null, {v} for the bigint v)
    rbLoading,      \* useState loading
    isApproving,    \* useState isApproving
    rbError,        \* useState error
    approvalError,  \* useState approvalError
    rbSuccess,      \* useState success
    rbPc,           \* the await point handleSubmit is suspended at
    rbNeeded,       \* item.amount of the provide leg being approved
    rbTxs           \* transactions handleSubmit has sent, in order

rebalanceVars == <<rebalanceType, rbActionType, vaultMax, userBalance, rbAllowance,
                   maxValue, maxLoads, rbAmount, rbLoading, isApproving, rbError,
                   approvalError, rbSuccess, rbPc, rbNeeded, rbTxs>>

\* calculateMaxValues and the flash-loan helper's max amount
VARIABLES
    tokenSide,          \* the side followed: borrow or collateral
    maxAction,          \* the action whose maximum is followed
    isTokenWeth,        \* isWETHAddress of that side's token
    ethBalanceStr,      \* the context's ethBalance, a decimal string
    tokenBalanceStr,    \* borrowTokenBalance or collateralTokenBalance
    sharesBalanceStr,   \* sharesBalance
    vaultMaxStr,        \* vaultMax<Action>[Collateral]: the vault's limit of that action and side
    userMax,            \* max<Action>[Collateral]: the maximum calculated for them
    maxAmount,          \* FlashLoanHelperHandler's maxAmount
    withdrawMaxAmount,  \* FlashLoanDepositWithdrawHandler's maxAmount, actionType withdraw
    withdrawErrorLogged \* the last setMaxWithdraw ended in its catch

maxVars == <<tokenSide, maxAction, isTokenWeth, ethBalanceStr, tokenBalanceStr, sharesBalanceStr,
             vaultMaxStr, userMax, maxAmount, withdrawMaxAmount, withdrawErrorLogged>>

\* FlashLoanHelperHandler with its useFlashLoanPreview, in a vault without
\* the ETH wrap (isWstETHVault false)
VARIABLES
    helperType,             \* mint or redeem
    sharesToProcess,        \* NONE for null
    helperSharesBalance,    \* sharesBalance, parsed
    helperCollateralBalance,\* collateralTokenBalance, parsed
    collateralPerShare,     \* the chain's price behind the helper's preview
    helperPreview,          \* previewData.amount, NONE for null
    isErrorLoadingPreview,
    helperLoads,            \* loadPreview calls awaiting their read
    hasInsufficientBalance,
    flashLoading,           \* flashLoan.loading
    helperCalls             \* flashLoan.execute() calls made by handleSubmit

helperVars == <<helperType, sharesToProcess, helperSharesBalance, helperCollateralBalance,
                collateralPerShare, helperPreview, isErrorLoadingPreview, helperLoads,
                hasInsufficientBalance, flashLoading, helperCalls>>

\* useAdaptiveInterval as the provider calls it
VARIABLES
    pollInitialDelay,   \* initialDelay of the call
    pollEnabled,        \* enabled
    pollDelay,          \* the delay of the schedule
    pollNoChange,       \* successful ticks without a change since the last reset
    pollLast,           \* the value seen by the last tick
    pollWait            \* ms until the pending timer fires, NONE without a timer

pollerVars == <<pollInitialDelay, pollEnabled, pollDelay, pollNoChange, pollLast, pollWait>>

\* what one loadPreview call leaves in the state of its hook
VARIABLES
    lpHook,                 \* the hook or component the loadPreview belongs to
    lpAmount,               \* the current input, NONE for null or ''
    lpPreviewData,          \* previewData, NONE for null
    lpIsErrorLoadingPreview,\* isErrorLoadingPreview, FALSE where the hook has none
    lpInvalidRebalanceMode, \* invalidRebalanceMode, FALSE where the hook has none
    lpAwaiting,             \* the amount of the call suspended at its await, as a set
    lpReturned,             \* what the last resolved read returned, NONE without one
    lpOutcome               \* how the last loadPreview call ended

outcomeVars == <<lpHook, lpAmount, lpPreviewData, lpIsErrorLoadingPreview,
                 lpInvalidRebalanceMode, lpAwaiting, lpReturned, lpOutcome>>

\* getReceiveAndProvide of the three preview forms
VARIABLES
    lgForm,     \* the hook or component that decomposes its preview
    lgKind,     \* rebalanceType, actionType or helperType
    lgAmount,   \* the input: amount or sharesToProcess, NONE for null or ''
    lgPreview,  \* previewData: {} for null, {[first, second]} for its fields
    lgLegs      \* the returned [provide, receive]

legVars == <<lgForm, lgKind, lgAmount, lgPreview, lgLegs>>

\* the ETH wrap of FlashLoanHelperHandler in a wstETH vault
\* (useEthWrapToWSTETH and isWstETHVault true), helperType mint
VARIABLES
    wrCollateralBalance,\* collateralTokenBalance, parsed
    wrEthBalance,       \* ethBalance, parsed
    wrPreviewAmount,    \* previewData.amount, NONE for a null previewData
    wrEthPerToken,      \* ETH that wraps into one unit of the collateral token
    ethToWrapValue,     \* useState ethToWrapValue, parsed; NONE for ''
    wrWraps             \* the wraps handleSubmit has made

wrapVars == <<wrCollateralBalance, wrEthBalance, wrPreviewAmount, wrEthPerToken,
              ethToWrapValue, wrWraps>>

\* handleRedeem of RedeemCollateral and handleSubmit of AuctionHandler
VARIABLES
    txForm,         \* the component that renders the form
    txMethod,       \* the vault method the form executes
    txInput,        \* the parsed input, NONE for '' or null
    txMax,          \* maxRedeemCollateral, parsed
    txLoading,      \* useState loading
    txError,        \* useState error
    txApprovalError,\* useState approvalError
    txSuccess,      \* useState success
    txPc,           \* the await point the handler is suspended at
    txEstimate,     \* local estimatedGas, NONE before the estimate
    txCalls,        \* what the running or last attempt has called, in order
    txAttempts      \* submissions so far

txVars == <<txForm, txMethod, txInput, txMax, txLoading, txError, txApprovalError,
            txSuccess, txPc, txEstimate, txCalls, txAttempts>>

\* loadMinAvailable of FlashLoanHelperHandler
VARIABLES
    mnDeltaShares,  \* on-chain deltaShares of previewLowLevelRebalanceBorrow(0)
    mnDebtShares,   \* on-chain convertToShares(variableDebtToken.balanceOf(vault))
    minMint,        \* useState minMint, a decimal string
    minRedeem,      \* useState minRedeem, a decimal string
    mnRead          \* the deltaShares and debt shares the last load read, as a set

minVars == <<mnDeltaShares, mnDebtShares, minMint, minRedeem, mnRead>>

\* the terms-of-use state of AppContextProvider
VARIABLES
    termsAddress,           \* address; "null" while no wallet is connected
    termsTextLoaded,        \* termsText is present
    isTermsSigned,          \* "null", "true" or "false"
    isCheckingTerms,
    isSigningTerms,
    hasAttemptedAutoSign,
    termsCheckingError,     \* FALSE for undefined
    termsSigningError,      \* FALSE for undefined
    isTermsBlockingUI,
    termsChecks,            \* addresses of the checkTermsStatus calls in flight
    termsSigns,             \* addresses of the signTermsOfUse calls in flight
    termsAccepted           \* the addresses the backend holds a signature of

termsVars == <<termsAddress, termsTextLoaded, isTermsSigned, isCheckingTerms, isSigningTerms,
               hasAttemptedAutoSign, termsCheckingError, termsSigningError,
               isTermsBlockingUI, termsChecks, termsSigns, termsAccepted>>

\* activateWhitelist of VaultContextProvider for one (vault, user) pair
VARIABLES
    hasSignature,           \* the signature lookup found a signature for the address
    signatureUsed,          \* on chain: the registry has consumed the signature
    isActivatingWhitelist,
    whitelistError,         \* "null" for null
    isWhitelisted,          \* "null", "true" or "false"
    activations,            \* the await point of every activateWhitelist call made
    whitelistTxs            \* addAddressToWhitelistBySignature transactions submitted

whitelistVars == <<hasSignature, signatureUsed, isActivatingWhitelist, whitelistError,
                   isWhitelisted, activations, whitelistTxs>>

\* the form of AuctionHandler
VARIABLES
    futureBorrowAssets,     \* prop
    futureCollateralAssets, \* prop
    aucBalance,             \* the balance of the provided token, parsed
    aucMaxValue,            \* useState maxValue, NONE for null
    aucAmount,              \* useState amount, NONE for null
    aucSubmitted            \* the [amount, balance] of every attempt past the early return

auctionVars == <<futureBorrowAssets, futureCollateralAssets, aucBalance, aucMaxValue,
                 aucAmount, aucSubmitted>>

\* the calls of calculateMaxValues (VaultContextProvider) over time
VARIABLES
    calcTokenBalance,   \* borrowTokenBalance, parsed
    calcVaultMax,       \* vaultMaxDeposit, parsed
    calcRunning,        \* the calls suspended at an await, with the inputs they read
    calcNext,           \* the number of the next call
    calcResolved,       \* the calls that reached their setters
    calcShownFrom,      \* the call whose result is displayed, 0 for none
    maxDepositShown     \* maxDeposit as displayed, EMPTY before the first result

calcVars == <<calcTokenBalance, calcVaultMax, calcRunning, calcNext, calcResolved,
              calcShownFrom, maxDepositShown>>

\* one call of a max loader of the flash-loan forms, from its effect
VARIABLES
    loader,             \* the async function the effect calls
    loaderEthBalance,   \* ethBalance or sharesBalance, parsed
    loaderAwait,        \* the await the call is suspended at, 0 when none runs
    loaderShares,       \* the local the first read filled, NONE before it
    loaderMaxAmount,    \* useState maxAmount, EMPTY for ''
    loaderErrorLogged,  \* the catch of the function has run
    unhandledRejections \* rejected promises that no handler received

loaderVars == <<loader, loaderEthBalance, loaderAwait, loaderShares, loaderMaxAmount,
                loaderErrorLogged, unhandledRejections>>

\* the components of the providers and of the auction form
finalVars == <<termsVars, whitelistVars, auctionVars, calcVars, loaderVars>>

NotTermsVars == <<whitelistVars, auctionVars, calcVars, loaderVars>>

NotWhitelistVars == <<termsVars, auctionVars, calcVars, loaderVars>>

NotAuctionVars == <<termsVars, whitelistVars, calcVars, loaderVars>>

NotCalcVars == <<termsVars, whitelistVars, auctionVars, loaderVars>>

NotLoaderVars == <<termsVars, whitelistVars, auctionVars, calcVars>>

\* the components added last
lateVars == <<outcomeVars, legVars, wrapVars, txVars, minVars, finalVars>>

\* the components added after the first four
auxVars == <<maxVars, helperVars, pollerVars, lateVars>>

vars == <<submitVars, contextVars, previewVars, rebalanceVars, auxVars>>

ActionTypes == {"deposit", "mint", "withdraw", "redeem"}

Handlers == {"ActionHandler", "SafeActionHandler"}

\* ACTION_CONFIGS[actionType].needsApproval / SAFE_ACTION_CONFIGS
needsApproval(h, a) ==
    IF h = "ActionHandler" THEN a \in {"deposit", "mint"} ELSE TRUE

Capitalized(a) ==
    CASE a = "deposit" -> "Deposit successful!"
      [] a = "mint" -> "Mint successful!"
      [] a = "withdraw" -> "Withdraw successful!"
      [] OTHER -> "Redeem successful!"

FailedTo(a) ==
    CASE a = "deposit" -> "Failed to deposit."
      [] a = "mint" -> "Failed to mint."
      [] a = "withdraw" -> "Failed to withdraw."
      [] OTHER -> "Failed to redeem."

Tx(type, amt, confirmed) == [type |-> type, amt |-> amt, confirmed |-> confirmed]

ConfirmLast(s) == [s EXCEPT ![Len(s)].confirmed = TRUE]

SubmitInit ==
    /\ handler \in Handlers
    /\ actionType \in ActionTypes
    /\ isWETH \in BOOLEAN
    /\ connected \in BOOLEAN
    /\ amount = NONE
    /\ isMaxSelected = FALSE
    /\ loading = FALSE
    /\ error = "null"
    /\ success = "null"
    /\ pc = "idle"
    /\ tokenBalance \in Amounts
    /\ allowance \in Amounts
    /\ parsedAmount = NONE
    /\ needed = NONE
    /\ balanceRead = NONE
    /\ allowanceRead = NONE
    /\ maxBeforeTx = NONE
    /\ txs = <<>>

\* ---- pure pieces of handleSubmit

\* value of `loading` left behind by the `if (!vault || !address)` return
\* that follows setLoading(true)
LoadingAfterNotConfigured(h) == IF h = "ActionHandler" THEN TRUE ELSE FALSE

ErrorAfterNotConfigured(h) ==
    IF h = "ActionHandler" THEN "null" ELSE "Vault or address not configured."

\* mutant: approve on every attempt, whatever the allowance is
AllowanceInsufficientAlways(currentAllowance, n) == TRUE

\* `if (currentAllowance < needed)` of handleApproval
AllowanceInsufficient(currentAllowance, n) == currentAllowance < n

\* amount handed to token.approve / vault.approve
ApproveAmount(n) == n

\* `if (balance >= needed) return true` of handleWrapIfNeeded
BalanceSuffices(balance, n) == balance >= n

\* wethMissing = needed - balance
WethMissing(n, balance) == n - balance

\* refetchMaxBeforeTx: redeem returns min(userSharesBalance, vaultMaxRedeem),
\* withdraw returns vaultMaxWithdraw
RefetchedMax(a, userSharesBalance, vaultMaxRead) ==
    IF a = "redeem" THEN Min(userSharesBalance, vaultMaxRead) ELSE vaultMaxRead

\* `if (!maxBeforeTx)`: undefined and 0n are both falsy
RefetchFailed(m) == m = NONE \/ m = 0

\* `else if (maxBeforeTx < parsedAmount)`
StaleMaxExceeded(m, committed) == m < committed

UsesMaxRefetch(a, isMax) == isMax /\ a \in {"redeem", "withdraw"}

\* where handleSubmit continues once wrap and approval are behind it
AfterApprovalPc(a, isMax) ==
    IF UsesMaxRefetch(a, isMax) THEN "refetchMax" ELSE "estimateGas"

\* mutant: the approval is not awaited before the execution goes on
AfterApproveSentPcNoWait == "estimateGas"

\* await point that follows the submission of the approval transaction:
\* `await approveTx.wait()`
AfterApproveSentPc == "approveWait"

\* ---- helpers that end an attempt

\* a `return` inside try (finally clears loading), or the catch block
EndAttempt(err, succ) ==
    /\ pc' = "idle"
    /\ loading' = FALSE
    /\ error' = err
    /\ success' = succ

Locals == <<parsedAmount, needed, balanceRead, allowanceRead, maxBeforeTx>>

Chain == <<tokenBalance, allowance>>

\* props of the form, and the components that handleSubmit does not touch
Props == <<handler, actionType, isWETH, contextVars, previewVars, rebalanceVars, auxVars>>

Form == <<connected, amount, isMaxSelected>>

\* continue after wrap and approval: the stale-max branch or the execution
ContinueAfterApproval == pc' = AfterApprovalPc(actionType, isMaxSelected)

\* the argument of executeVaultMethod / executeSafeMethod: maxBeforeTx in the
\* max branch, parsedAmount otherwise
ExecAmount(a, isMax, committed, m) ==
    IF UsesMaxRefetch(a, isMax) THEN m ELSE committed

\* ---- user and environment

\* typing an amount or pressing MAX (setAmount / setIsMaxSelected)
SetAmount ==
    /\ pc = "idle" /\ ~loading
    /\ \E v \in Amounts \cup {NONE}, m \in BOOLEAN :
          /\ (m => v # NONE)
          /\ amount' = v
          /\ isMaxSelected' = m
    /\ UNCHANGED <<Props, connected, loading, error, success, pc, Chain, Locals, txs>>

\* wallet connects or disconnects: vault/address become set or null
ToggleConnection ==
    /\ pc = "idle"
    /\ connected' = ~connected
    /\ UNCHANGED <<Props, amount, isMaxSelected, loading, error, success, pc,
                   Chain, Locals, txs>>

\* ---- handleSubmit, one action per await point

\* handleSubmit up to its first await
Submit ==
    /\ pc = "idle" /\ ~loading
    /\ txs' = <<>>
    /\ balanceRead' = NONE /\ allowanceRead' = NONE /\ maxBeforeTx' = NONE
    /\ parsedAmount' = IF connected THEN amount ELSE NONE
    /\ IF ~connected
       THEN /\ pc' = "idle"
            /\ loading' = LoadingAfterNotConfigured(handler)
            /\ error' = ErrorAfterNotConfigured(handler)
            /\ success' = "null"
            /\ needed' = NONE
       ELSE IF amount = NONE
       THEN \* parseUnits throws: catch, finally
            /\ EndAttempt(FailedTo(actionType), "null")
            /\ needed' = NONE
       ELSE IF handler = "SafeActionHandler"
       THEN \E slippageOk \in BOOLEAN :
              IF ~slippageOk
              THEN /\ EndAttempt("Invalid slippage tolerance.", "null")
                   /\ needed' = NONE
              ELSE /\ pc' = "slippageBound"
                   /\ loading' = TRUE /\ error' = "null" /\ success' = "null"
                   /\ needed' = NONE
       ELSE /\ loading' = TRUE /\ error' = "null" /\ success' = "null"
            /\ IF needsApproval(handler, actionType)
               THEN IF actionType = "mint"
                    THEN pc' = "previewMint" /\ needed' = NONE
                    ELSE pc' = "balanceOf" /\ needed' = parsedAmount'
               ELSE needed' = NONE /\ ContinueAfterApproval
    /\ UNCHANGED <<Props, Form, Chain>>

\* SafeActionHandler: await calculateSlippageBound(parsedAmount)
SlippageBound ==
    /\ pc = "slippageBound"
    /\ \E bound \in Amounts \cup {NONE} :
          IF bound = NONE
          THEN /\ EndAttempt("Error calculating slippage bound.", "null")
               /\ UNCHANGED needed
          ELSE /\ needed' = IF actionType \in {"withdraw", "mint"} THEN bound
                            ELSE parsedAmount
               /\ pc' = IF actionType \in {"withdraw", "redeem"}
                        THEN "allowance" ELSE "balanceOf"
               /\ UNCHANGED <<loading, error, success>>
    /\ UNCHANGED <<Props, Form, Chain, parsedAmount, balanceRead, allowanceRead,
                   maxBeforeTx, txs>>

\* ActionHandler mint: await vaultLens.previewMint(parsedAmount)
PreviewMint ==
    /\ pc = "previewMint"
    /\ \E n \in Amounts : needed' = n
    /\ pc' = "balanceOf"
    /\ UNCHANGED <<Props, Form, Chain, loading, error, success, parsedAmount,
                   balanceRead, allowanceRead, maxBeforeTx, txs>>

\* await tokenLens.balanceOf(address), then handleWrapIfNeeded up to its await
BalanceOf ==
    /\ pc = "balanceOf"
    /\ balanceRead' = tokenBalance
    /\ IF BalanceSuffices(tokenBalance, needed)
       THEN pc' = "allowance" /\ UNCHANGED <<loading, error, success>>
       ELSE IF ~isWETH
       THEN EndAttempt("Not enough tokens.", success)
       ELSE pc' = "wrapEth" /\ UNCHANGED <<loading, error, success>>
    /\ UNCHANGED <<Props, Form, Chain, parsedAmount, needed, allowanceRead,
                   maxBeforeTx, txs>>

\* utils wrapEth(token, wethMissing, ...): deposits exactly wethMissing into the
\* wrapped-native token and waits for the confirmation, or reports an error
\* through setError and returns without wrapping
wrapEth(wethMissing) ==
    { [ok |-> TRUE, wrapped |-> wethMissing], [ok |-> FALSE, wrapped |-> 0] }

\* await wrapEth(token, wethMissing, ethBalance, setSuccess, setError)
WrapEth ==
    /\ pc = "wrapEth"
    /\ \E r \in wrapEth(WethMissing(needed, balanceRead)) :
          IF r.ok
          THEN /\ txs' = Append(txs, Tx("wrap", r.wrapped, TRUE))
               /\ tokenBalance' = tokenBalance + r.wrapped
               /\ success' = "Successfully wrapped." /\ UNCHANGED error
          ELSE /\ UNCHANGED <<txs, tokenBalance, success>>
               /\ error' = "Failed to wrap."
    /\ pc' = "wrapCheck"
    /\ UNCHANGED <<Props, Form, allowance, loading, Locals>>

\* await tokenLens.balanceOf(address) after the wrap
WrapCheck ==
    /\ pc = "wrapCheck"
    /\ IF tokenBalance < needed
       THEN EndAttempt("Not enough WETH after wrapping.", success)
       ELSE pc' = "allowance" /\ UNCHANGED <<loading, error, success>>
    /\ UNCHANGED <<Props, Form, Chain, Locals, txs>>

\* handleApproval: await allowance(address, spender)
Allowance ==
    /\ pc = "allowance"
    /\ allowanceRead' = allowance
    /\ IF AllowanceInsufficient(allowance, needed)
       THEN /\ pc' = "approve"
            /\ UNCHANGED <<loading, error, success>>
       ELSE /\ success' = "Already approved."
            /\ ContinueAfterApproval
            /\ UNCHANGED <<loading, error>>
    /\ UNCHANGED <<Props, Form, Chain, parsedAmount, needed, balanceRead,
                   maxBeforeTx, txs>>

\* await token.approve(spender, needed)
Approve ==
    /\ pc = "approve"
    /\ txs' = Append(txs, Tx("approve", ApproveAmount(needed), FALSE))
    /\ pc' = AfterApproveSentPc
    /\ UNCHANGED <<Props, Form, Chain, loading, error, success, Locals>>

\* await approveTx.wait()
ApproveWait ==
    /\ pc = "approveWait"
    /\ txs' = ConfirmLast(txs)
    /\ allowance' = txs[Len(txs)].amt
    /\ success' = "Successfully approved."
    /\ ContinueAfterApproval
    /\ UNCHANGED <<Props, Form, tokenBalance, loading, error, Locals>>

\* await refetchMaxBeforeTx() and the two checks that follow it
RefetchMax ==
    /\ pc = "refetchMax"
    /\ \E userSharesBalance \in Amounts, vaultMaxRead \in Amounts, readOk \in BOOLEAN :
          LET m == IF readOk THEN RefetchedMax(actionType, userSharesBalance, vaultMaxRead)
                   ELSE NONE
          IN /\ maxBeforeTx' = m
             /\ IF RefetchFailed(m)
                THEN EndAttempt("Error refetching max amount before tx.", success)
                ELSE IF StaleMaxExceeded(m, parsedAmount)
                THEN EndAttempt("Amount higher than available.", success)
                ELSE /\ pc' = IF handler = "SafeActionHandler"
                              THEN "slippageBound2" ELSE "estimateGas"
                     /\ UNCHANGED <<loading, error, success>>
    /\ UNCHANGED <<Props, Form, Chain, parsedAmount, needed, balanceRead,
                   allowanceRead, txs>>

\* SafeActionHandler: await calculateSlippageBound(finalAmount)
SlippageBound2 ==
    /\ pc = "slippageBound2"
    /\ \E ok \in BOOLEAN :
          IF ok
          THEN pc' = "estimateGas" /\ UNCHANGED <<loading, error, success>>
          ELSE EndAttempt("Error calculating slippage bound.", success)
    /\ UNCHANGED <<Props, Form, Chain, Locals, txs>>

\* await <method>.estimateGas(parsedAmount, ...)
EstimateGas ==
    /\ pc = "estimateGas"
    /\ pc' = "send"
    /\ UNCHANGED <<Props, Form, Chain, Locals, txs, loading, error, success>>

\* await vault.<method>(parsedAmount, ..., {gasLimit})
Send ==
    /\ pc = "send"
    /\ txs' = Append(txs, Tx("main",
                             ExecAmount(actionType, isMaxSelected, parsedAmount, maxBeforeTx),
                             FALSE))
    /\ pc' = "wait"
    /\ UNCHANGED <<Props, Form, Chain, Locals, loading, error, success>>

\* tokens or shares the confirmed main transaction pulls from the allowance
Spent(a) == IF a \in {"deposit", "redeem"} THEN txs[Len(txs)].amt ELSE needed

\* await tx.wait(): the transaction is mined (a revert is a Throw)
Wait ==
    /\ pc = "wait"
    /\ txs' = ConfirmLast(txs)
    /\ IF needsApproval(handler, actionType)
       THEN /\ allowance >= Spent(actionType)
            /\ allowance' = allowance - Spent(actionType)
       ELSE UNCHANGED allowance
    /\ IF actionType \in {"deposit", "mint"}
       THEN /\ tokenBalance >= Spent(actionType)
            /\ tokenBalance' = tokenBalance - Spent(actionType)
       ELSE UNCHANGED tokenBalance
    /\ pc' = "refresh"
    /\ UNCHANGED <<Props, Form, Locals, loading, error, success>>

\* await Promise.all([refreshBalances(), refreshVaultLimits()]), setAmount(''),
\* setSuccess, finally
Refresh ==
    /\ pc = "refresh"
    /\ amount' = NONE
    /\ EndAttempt(error, Capitalized(actionType))
    /\ UNCHANGED <<Props, connected, isMaxSelected, Chain, Locals, txs>>

SigningPcs == {"wrapEth", "approve", "send"}

ThrowingPcs == {"previewMint", "balanceOf", "wrapEth", "wrapCheck", "allowance",
                "approve", "approveWait", "estimateGas", "send", "wait"}

\* an awaited call rejects: the catch block, then finally
Throw ==
    /\ pc \in ThrowingPcs
    /\ \E userRejected \in BOOLEAN :
          /\ userRejected => pc \in SigningPcs
          /\ EndAttempt(IF userRejected THEN "Transaction canceled by user."
                        ELSE FailedTo(actionType), success)
    /\ UNCHANGED <<Props, Form, Chain, Locals, txs>>

SubmitNext ==
    \/ SetAmount
    \/ ToggleConnection
    \/ Submit
    \/ SlippageBound
    \/ PreviewMint
    \/ BalanceOf
    \/ WrapEth
    \/ WrapCheck
    \/ Allowance
    \/ Approve
    \/ ApproveWait
    \/ RefetchMax
    \/ SlippageBound2
    \/ EstimateGas
    \/ Send
    \/ Wait
    \/ Refresh
    \/ Throw

\* ---------------------------------------------------------------- claims
HasTx(type) == \E i \in 1..Len(txs) : txs[i].type = type

ConfirmedTx(type) == \E i \in 1..Len(txs) : txs[i].type = type /\ txs[i].confirmed

\* C1: when 'max' was selected for a redeem or withdraw and the maximum
\* re-fetched before submission is smaller than the committed amount, the
\* attempt ends with the error 'Amount higher than available.' and no vault
\* transaction is sent.
C1_StaleMaxAbortsWithHigherThanAvailable ==
    (maxBeforeTx # NONE /\ maxBeforeTx < parsedAmount) =>
        /\ ~HasTx("main")
        /\ pc = "idle"
        /\ error = "Amount higher than available."

\* position of an await point in Idle -> Wrapping -> Approving -> Submitting
\* -> Confirming -> Succeeded/Failed (the reads that precede the wrap belong
\* to no later step and rank with Idle)
StageRank(p) ==
    CASE p \in {"idle", "slippageBound", "previewMint", "balanceOf"} -> 0
      [] p \in {"wrapEth", "wrapCheck"} -> 1
      [] p \in {"allowance", "approve", "approveWait"} -> 2
      [] p \in {"refetchMax", "slippageBound2", "estimateGas", "send"} -> 3
      [] p = "wait" -> 4
      [] OTHER -> 5

TxRank(type) == CASE type = "wrap" -> 1 [] type = "approve" -> 2 [] OTHER -> 3

TxsInOrder ==
    /\ \A i, j \in 1..Len(txs) : i < j => TxRank(txs[i].type) < TxRank(txs[j].type)
    /\ \A i \in 1..Len(txs) :
          txs[i].type = "main" =>
             /\ \A j \in 1..(i - 1) : txs[j].confirmed
             /\ needsApproval(handler, actionType) =>
                   /\ allowanceRead # NONE
                   /\ allowanceRead < needed => ConfirmedTx("approve")
             /\ (balanceRead # NONE /\ balanceRead < needed) => ConfirmedTx("wrap")

StepsForward ==
    (pc # "idle" /\ pc' # "idle") => StageRank(pc') >= StageRank(pc)

C7_LoadingClearedWhenIdle == pc = "idle" => ~loading

\* C34: the amount submitted in a redeem or withdraw transaction never
\* exceeds the amount the user committed to in the form, including when
\* 'max' was selected and the maximum re-fetched before submission is
\* larger than the committed amount.
C34_SubmittedWithinCommitted ==
    actionType \in {"redeem", "withdraw"} =>
        \A i \in 1..Len(txs) : txs[i].type = "main" => txs[i].amt <= parsedAmount

\* =====================================================================
\* Component: AppContext / VaultContext (loadBalances, loadVaultLimits)
\* =====================================================================
Addresses == {"a1", "a2"}

\* largest number of loadBalances calls and of loadVaultLimits calls
MaxLoads == 2

\* largest number of reads of one Promise.all that fail together
MaxFailed == 1

LimitFields ==
    {"vaultMaxDeposit", "vaultMaxRedeem", "vaultMaxMint", "vaultMaxWithdraw",
     "vaultMaxDepositCollateral", "vaultMaxRedeemCollateral",
     "vaultMaxMintCollateral", "vaultMaxWithdrawCollateral",
     "maxLowLevelRebalanceShares", "totalAssets"}

\* the value that call number `id` read on chain for address `addr`
Reading(id, addr) == [id |-> id, addr |-> addr]

\* useState('') : nothing read yet
NoReading == Reading(0, "null")

ContextInit ==
    /\ address = "null"
    /\ ethBalance = NoReading
    /\ sharesBalance = NoReading
    /\ borrowTokenBalance = NoReading
    /\ collateralTokenBalance = NoReading
    /\ isRefreshingBalances = FALSE
    /\ vaultLimits = [f \in LimitFields |-> NoReading]
    /\ balanceLoads = {}
    /\ limitLoads = {}
    /\ nextBalanceLoad = 1
    /\ nextLimitLoad = 1

\* a loadBalances call that passed its guard and awaits getBalance(address)
BalanceLoad(id, addr, manual) ==
    [id |-> id, addr |-> addr, manual |-> manual, pc |-> "getBalance"]

\* a loadVaultLimits call that passed its guard and awaits Promise.all
LimitLoad(id, addr) == [id |-> id, addr |-> addr, pc |-> "reading"]

Balances == <<ethBalance, sharesBalance, borrowTokenBalance, collateralTokenBalance>>

BalanceSide == <<Balances, isRefreshingBalances, balanceLoads, nextBalanceLoad>>

LimitSide == <<vaultLimits, limitLoads, nextLimitLoad>>

\* `finally { if (isManualRefresh) setIsRefreshingBalances(false) }`
RefreshingAfter(l, cur) == IF l.manual THEN FALSE ELSE cur

Settle(loads, l, outcome) == (loads \ {l}) \cup {[l EXCEPT !.pc = outcome]}

disconnectWallet ==
    /\ address # "null"
    /\ address' = "null"
    /\ UNCHANGED <<submitVars, previewVars, rebalanceVars, auxVars, BalanceSide, LimitSide>>

\* setAddress(newAddress) and the effects that re-run because loadBalances
\* and loadVaultLimits were re-created for the new address
setupProviderConnection ==
    /\ nextBalanceLoad <= MaxLoads
    /\ nextLimitLoad <= MaxLoads
    /\ \E a \in Addresses \ {address} :
          /\ address' = a
          /\ balanceLoads' = balanceLoads \cup {BalanceLoad(nextBalanceLoad, a, FALSE)}
          /\ limitLoads' = limitLoads \cup {LimitLoad(nextLimitLoad, a)}
    /\ nextBalanceLoad' = nextBalanceLoad + 1
    /\ nextLimitLoad' = nextLimitLoad + 1
    /\ UNCHANGED <<submitVars, previewVars, rebalanceVars, auxVars, Balances, isRefreshingBalances, vaultLimits>>

\* useAdaptiveInterval(loadBalances, {enabled: isConnected && ...})
PollBalances ==
    /\ address # "null"
    /\ nextBalanceLoad <= MaxLoads
    /\ balanceLoads' = balanceLoads \cup {BalanceLoad(nextBalanceLoad, address, FALSE)}
    /\ nextBalanceLoad' = nextBalanceLoad + 1
    /\ UNCHANGED <<submitVars, previewVars, rebalanceVars, auxVars, address, Balances, isRefreshingBalances, LimitSide>>

\* refreshBalances = loadBalances(true)
refreshBalances ==
    /\ address # "null"
    /\ nextBalanceLoad <= MaxLoads
    /\ isRefreshingBalances' = TRUE
    /\ balanceLoads' = balanceLoads \cup {BalanceLoad(nextBalanceLoad, address, TRUE)}
    /\ nextBalanceLoad' = nextBalanceLoad + 1
    /\ UNCHANGED <<submitVars, previewVars, rebalanceVars, auxVars, address, Balances, LimitSide>>

\* `await publicProvider.getBalance(address)` settles; on success
\* setEthBalance runs before the next await
GetBalanceSettles ==
    \E l \in balanceLoads, ok \in BOOLEAN :
        /\ l.pc = "getBalance"
        /\ IF ok
           THEN /\ ethBalance' = Reading(l.id, l.addr)
                /\ balanceLoads' = Settle(balanceLoads, l, "balanceOf")
                /\ UNCHANGED isRefreshingBalances
           ELSE /\ balanceLoads' = Settle(balanceLoads, l, "failed")
                /\ isRefreshingBalances' = RefreshingAfter(l, isRefreshingBalances)
                /\ UNCHANGED ethBalance
        /\ UNCHANGED <<submitVars, previewVars, rebalanceVars, auxVars, address, sharesBalance, borrowTokenBalance,
                       collateralTokenBalance, nextBalanceLoad, LimitSide>>

\* `await Promise.all([balanceOf x3])` settles
BalanceOfSettles ==
    \E l \in balanceLoads, ok \in BOOLEAN :
        /\ l.pc = "balanceOf"
        /\ IF ok
           THEN /\ sharesBalance' = Reading(l.id, l.addr)
                /\ borrowTokenBalance' = Reading(l.id, l.addr)
                /\ collateralTokenBalance' = Reading(l.id, l.addr)
                /\ balanceLoads' = Settle(balanceLoads, l, "done")
           ELSE /\ balanceLoads' = Settle(balanceLoads, l, "failed")
                /\ UNCHANGED <<sharesBalance, borrowTokenBalance, collateralTokenBalance>>
        /\ isRefreshingBalances' = RefreshingAfter(l, isRefreshingBalances)
        /\ UNCHANGED <<submitVars, previewVars, rebalanceVars, auxVars, address, ethBalance, nextBalanceLoad, LimitSide>>

\* useAdaptiveInterval(loadVaultLimits, ...) and refreshVaultLimits
LoadVaultLimits ==
    /\ address # "null"
    /\ nextLimitLoad <= MaxLoads
    /\ limitLoads' = limitLoads \cup {LimitLoad(nextLimitLoad, address)}
    /\ nextLimitLoad' = nextLimitLoad + 1
    /\ UNCHANGED <<submitVars, previewVars, rebalanceVars, auxVars, address, BalanceSide, vaultLimits>>

\* the sets of reads of one Promise.all that reject
FailedSets == {S \in SUBSET LimitFields : Cardinality(S) <= MaxFailed}

\* mutant: every read that succeeded is applied (Promise.allSettled)
LimitsAfterSettled(cur, r, failed) ==
    [f \in LimitFields |-> IF f \in failed THEN cur[f] ELSE r]

\* the ten setters run only after Promise.all resolved; a rejection goes to
\* the catch, which only logs
LimitsAfter(cur, r, failed) ==
    IF failed = {} THEN [f \in LimitFields |-> r] ELSE cur

VaultLimitsSettle ==
    \E l \in limitLoads, failed \in FailedSets :
        /\ l.pc = "reading"
        /\ vaultLimits' = LimitsAfter(vaultLimits, Reading(l.id, l.addr), failed)
        /\ limitLoads' = Settle(limitLoads, l, IF failed = {} THEN "done" ELSE "failed")
        /\ UNCHANGED <<submitVars, previewVars, rebalanceVars, auxVars, address, BalanceSide, nextLimitLoad>>

ContextNext ==
    \/ disconnectWallet
    \/ setupProviderConnection
    \/ PollBalances
    \/ refreshBalances
    \/ GetBalanceSettles
    \/ BalanceOfSettles
    \/ LoadVaultLimits
    \/ VaultLimitsSettle

BalanceIds == {ethBalance.id, sharesBalance.id, borrowTokenBalance.id,
               collateralTokenBalance.id}

NoBalanceLoadRunning == \A l \in balanceLoads : l.pc \in {"done", "failed"}

\* C2: once the balance refreshes that were started have ended, by success
\* or by failure, the four visible balances all come from one and the same
\* refresh: none is left from a failed refresh beside older ones.
C2_BalancesFromOneRefresh == NoBalanceLoadRunning => Cardinality(BalanceIds) = 1

ShownFor(old, new) == new # old => new.addr = address'

\* C4: a balance or limit refresh issued for an address that is no longer
\* the connected one does not modify the visible balances and limits when
\* it resolves.
C4_StaleRefreshIgnored ==
    [][/\ ShownFor(ethBalance, ethBalance')
       /\ ShownFor(sharesBalance, sharesBalance')
       /\ ShownFor(borrowTokenBalance, borrowTokenBalance')
       /\ ShownFor(collateralTokenBalance, collateralTokenBalance')
       /\ \A f \in LimitFields : ShownFor(vaultLimits[f], vaultLimits'[f])]_vars

\* C8: a vault-limit refresh of which any read failed updates none of the
\* limit fields; the fields always hold the readings of one refresh.
C8_FailedLimitRefreshUpdatesNothing ==
    /\ \A l \in limitLoads :
          l.pc = "failed" => \A f \in LimitFields : vaultLimits[f].id # l.id
    /\ \A f, g \in LimitFields : vaultLimits[f] = vaultLimits[g]

C8_Witness ==
    /\ \E l \in limitLoads : l.pc = "failed"
    /\ \E l \in limitLoads : l.pc = "done" /\ vaultLimits["totalAssets"].id = l.id

\* =====================================================================
\* Component: preview hooks (useActionPreview, useFlashLoanPreview,
\* LowLevelRebalanceHandler loadPreview)
\* =====================================================================
Hooks == {"useActionPreview", "useFlashLoanPreview", "LowLevelRebalanceHandler"}

\* the two hooks named useFlashLoanPreview: the one of hooks/ that reads at
\* once and sets an interval, and the one that only waits for its timeout
FlashHooks == {"useFlashLoanPreview", "useFlashLoanPreviewDebounced"}

\* setTimeout(..., 500)
DEBOUNCE == 500

\* setInterval(..., 6000)
REFRESH == 6000

\* the clock advances by half a debounce window
Step == DEBOUNCE \div 2

\* number of clock steps the model follows
MaxTicks == 26

\* number of input events the model follows
MaxChanges == 3

MaxTime == MaxTicks * Step

Selections(h) ==
    CASE h = "useActionPreview" -> {"deposit", "mint"}
      [] h \in FlashHooks -> {"mint", "redeem"}
      [] OTHER -> {"shares", "borrow"}

FirstSelection(h) ==
    CASE h = "useActionPreview" -> "deposit"
      [] h \in FlashHooks -> "mint"
      [] OTHER -> "shares"

\* the guard at the top of each loadPreview / isValid of useFlashLoanPreview
ValidInput(h, v) ==
    IF h \in FlashHooks THEN v # NONE /\ v > 0 ELSE v # NONE

\* whether the effect waits before it calls loadPreview
Debounced(h) == h # "useFlashLoanPreview"

Preview(v, sel) == [amount |-> v, selection |-> sel]

\* previewData === null
NoPreview == Preview(NONE, "null")

\* a timer set by the effect, due `due` ms after the effect ran, with the
\* amount and the selection of the render that set it
Timer(kind, due, v, sel) ==
    [kind |-> kind, due |-> due, amount |-> v, selection |-> sel]

\* a read issued `delay` ms after the effect ran
Read(delay, v, sel) == [delay |-> delay, amount |-> v, selection |-> sel]

\* what the effect on [amount, selection] leaves scheduled after it ran for
\* the input v and the selection sel
TimersAfterEffect(h, v, sel) ==
    IF Debounced(h)
    THEN {Timer("timeout", DEBOUNCE, v, sel)}
    ELSE IF ValidInput(h, v) THEN {Timer("interval", REFRESH, v, sel)} ELSE {}

\* the reads the effect issues at once when it runs for v and sel
ReadsOfEffect(h, v, sel) ==
    IF ~Debounced(h) /\ ValidInput(h, v) THEN <<Read(0, v, sel)>> ELSE <<>>

\* mutant: the effect runs again without the cleanup of its last run
TimersAfterChangeNoCleanup(h, v, sel) == timers \cup TimersAfterEffect(h, v, sel)

\* a dependency changed: the cleanup of the last run clears its timer, then
\* the effect runs for v and sel
TimersAfterChange(h, v, sel) == TimersAfterEffect(h, v, sel)

Issue(rs) ==
    /\ reads' = reads \o rs
    /\ pending' = pending \cup ((Len(reads) + 1)..(Len(reads) + Len(rs)))

\* the state of a hook after its first render with an empty input
PreviewMounted ==
    /\ selection = FirstSelection(hook)
    /\ inputAmount = NONE
    /\ elapsed = 0
    /\ timers = TimersAfterEffect(hook, NONE, FirstSelection(hook))
    /\ reads = <<>>
    /\ pending = {}
    /\ previewData = NoPreview
    /\ changes = 0

PreviewInit == hook \in Hooks /\ PreviewMounted

FlashPreviewInit == hook \in FlashHooks /\ PreviewMounted

PreviewParked == PreviewInit /\ hook = "useActionPreview"

PreviewFrame == <<submitVars, contextVars, rebalanceVars, auxVars, hook>>

\* the user edits the amount: the effect's cleanup clears the timer and the
\* effect runs again
ChangeAmount ==
    /\ changes < MaxChanges
    /\ \E v \in (Amounts \cup {NONE}) \ {inputAmount} :
          /\ inputAmount' = v
          /\ timers' = TimersAfterChange(hook, v, selection)
          /\ Issue(ReadsOfEffect(hook, v, selection))
    /\ elapsed' = 0
    /\ changes' = changes + 1
    /\ UNCHANGED <<PreviewFrame, selection, previewData>>

\* the selection prop changes: the effects run with the new selection and
\* the amount of that render, the reset effects clear previewData and the
\* amount, and the effects run again for the cleared amount
ChangeSelection ==
    /\ changes < MaxChanges
    /\ \E sel \in Selections(hook) \ {selection} :
          /\ selection' = sel
          /\ timers' = TimersAfterChange(hook, NONE, sel)
          /\ Issue(ReadsOfEffect(hook, inputAmount, sel))
    /\ inputAmount' = NONE
    /\ previewData' = NoPreview
    /\ elapsed' = 0
    /\ changes' = changes + 1
    /\ UNCHANGED PreviewFrame

\* time passes; a timer that is due runs before later ones
Tick ==
    /\ elapsed < MaxTime
    /\ \A t \in timers : elapsed < t.due
    /\ elapsed' = elapsed + Step
    /\ UNCHANGED <<PreviewFrame, selection, inputAmount, timers, reads, pending,
                   previewData, changes>>

\* the setTimeout callback: loadPreview(amount) of the render that set it
TimeoutFires ==
    \E t \in timers :
        /\ t.kind = "timeout"
        /\ elapsed >= t.due
        /\ timers' = {}
        /\ IF ValidInput(hook, t.amount)
           THEN /\ Issue(<<Read(elapsed, t.amount, t.selection)>>)
                /\ UNCHANGED previewData
           ELSE /\ previewData' = NoPreview
                /\ UNCHANGED <<reads, pending>>
        /\ UNCHANGED <<PreviewFrame, selection, inputAmount, elapsed, changes>>

\* the setInterval callback: loadPreview() of the render that set it
IntervalFires ==
    \E t \in timers :
        /\ t.kind = "interval"
        /\ elapsed >= t.due
        /\ timers' = {[t EXCEPT !.due = t.due + REFRESH]}
        /\ Issue(<<Read(elapsed, t.amount, t.selection)>>)
        /\ UNCHANGED <<PreviewFrame, selection, inputAmount, elapsed, previewData, changes>>

\* setPreviewData(result) after the await, setPreviewData(null) in the catch
PreviewAfterRead(r, ok) ==
    IF ok THEN Preview(r.amount, r.selection) ELSE NoPreview

ReadSettles ==
    \E i \in pending, ok \in BOOLEAN :
        /\ previewData' = PreviewAfterRead(reads[i], ok)
        /\ pending' = pending \ {i}
        /\ UNCHANGED <<PreviewFrame, selection, inputAmount, elapsed, timers, reads, changes>>

PreviewNext ==
    \/ ChangeAmount
    \/ ChangeSelection
    \/ Tick
    \/ TimeoutFires
    \/ IntervalFires
    \/ ReadSettles

\* C3: a preview result that is stored when its read resolves was computed
\* for the amount and the selection that are current at that moment; the
\* result of a read overtaken by a change is dropped.
C3_StaleResultDiscarded ==
    [][(previewData' # previewData /\ previewData' # NoPreview) =>
          previewData' = Preview(inputAmount', selection')]_vars

\* C9: every preview read is issued not earlier than 500 ms after the input
\* change it answers, and one change is answered by at most one read
\* within the debounce window.
C9_ReadsAreDebounced ==
    \A i \in 1..Len(reads) : reads[i].delay >= DEBOUNCE

\* =====================================================================
\* Component: LowLevelRebalanceHandler (loadMaxValue, handleSubmit)
\* =====================================================================
RebalanceTypes == {"shares", "borrow", "collateral"}

RebalanceActions(t) == IF t = "shares" THEN {"mint", "burn"} ELSE {"provide", "receive"}

SignedAmounts == (0 - MaxAmount)..MaxAmount

\* mutant: the vault's max is taken without the clamp to the user's balance
LoadedMaxVaultOnly(t, a, vMax, balance) ==
    IF t = "shares" THEN vMax
    ELSE IF (vMax < 0) # (a = "provide") THEN 0
    ELSE vMax

\* loadMaxValue: the value handed to setMaxValue
LoadedMax(t, a, vMax, balance) ==
    IF t = "shares" THEN vMax
    ELSE IF (vMax < 0) # (a = "provide") THEN 0
    ELSE IF vMax < 0 THEN (IF vMax > 0 - balance THEN vMax ELSE 0 - balance)
    ELSE (IF vMax < balance THEN vMax ELSE balance)

getAmountSign(t, a) ==
    IF t = "shares" THEN (IF a = "mint" THEN 1 ELSE 0 - 1)
    ELSE IF t = "collateral" THEN (IF a = "provide" THEN 1 ELSE 0 - 1)
    ELSE (IF a = "provide" THEN 0 - 1 ELSE 1)

\* `disabled={loading || isApproving || amount === null}` of the submit button
SubmitEnabled(isLoading, approving, amt) == ~isLoading /\ ~approving /\ amt # {}

\* `if (!vault || !vaultLens || !address || !amount) return;` with the
\* contracts and the address present: null and 0n are falsy
SubmitReturnsEarly(amt) == amt = {} \/ amt = {0}

RebalanceInit ==
    /\ rebalanceType \in RebalanceTypes
    /\ rbActionType \in RebalanceActions(rebalanceType)
    /\ vaultMax \in SignedAmounts
    /\ userBalance \in Amounts
    /\ rbAllowance \in Amounts
    /\ maxValue = {}
    /\ maxLoads = 1
    /\ rbAmount = {}
    /\ rbLoading = FALSE
    /\ isApproving = FALSE
    /\ rbError = "null"
    /\ approvalError = "null"
    /\ rbSuccess = "null"
    /\ rbPc = "idle"
    /\ rbNeeded = NONE
    /\ rbTxs = <<>>

RebalanceParked ==
    /\ RebalanceInit
    /\ rebalanceType = "shares"
    /\ rbActionType = "mint"
    /\ vaultMax = 0
    /\ userBalance = 0
    /\ rbAllowance = 0

RbProps == <<submitVars, contextVars, previewVars, auxVars, rebalanceType, rbActionType,
             vaultMax, userBalance>>

RbMessages == <<rbError, approvalError, rbSuccess>>

\* the await of loadMaxValue settles
MaxValueSettles ==
    /\ maxLoads > 0
    /\ maxLoads' = maxLoads - 1
    /\ \E ok \in BOOLEAN :
          maxValue' = IF ok
                      THEN {LoadedMax(rebalanceType, rbActionType, vaultMax, userBalance)}
                      ELSE maxValue
    /\ UNCHANGED <<RbProps, rbAllowance, rbAmount, rbLoading, isApproving, RbMessages,
                   rbPc, rbNeeded, rbTxs>>

\* handleInputChange: processInput gives null or a non-negative bigint
rbHandleInputChange ==
    /\ ~rbLoading
    /\ \E parsedValue \in Amounts \cup {NONE} :
          rbAmount' = IF parsedValue = NONE
                      THEN {}
                      ELSE {parsedValue * getAmountSign(rebalanceType, rbActionType)}
    /\ UNCHANGED <<RbProps, rbAllowance, maxValue, maxLoads, rbLoading, isApproving,
                   RbMessages, rbPc, rbNeeded, rbTxs>>

\* handleMaxClick, behind the MAX button
handleMaxClick ==
    /\ ~rbLoading
    /\ rebalanceType # "shares"
    /\ maxValue # {} /\ maxValue # {0}
    /\ rbAmount' = {Abs(m) * getAmountSign(rebalanceType, rbActionType) : m \in maxValue}
    /\ UNCHANGED <<RbProps, rbAllowance, maxValue, maxLoads, rbLoading, isApproving,
                   RbMessages, rbPc, rbNeeded, rbTxs>>

\* where handleSubmit goes on after checkAndApproveRequiredAssets returned
AfterApprovalStep(t) == IF t = "shares" THEN "estimateGas" ELSE "preview"

\* handleSubmit up to its first await; `provide` is the amount of the token
\* leg that getReceiveAndProvide derives from previewData (0: there is none)
rbHandleSubmit ==
    /\ rbPc = "idle"
    /\ SubmitEnabled(rbLoading, isApproving, rbAmount)
    /\ ~SubmitReturnsEarly(rbAmount)
    /\ rbLoading' = TRUE
    /\ rbError' = "null"
    /\ rbSuccess' = "null"
    /\ approvalError' = "null"
    /\ rbTxs' = <<>>
    /\ \E provide \in Amounts :
          IF provide = 0
          THEN /\ rbPc' = AfterApprovalStep(rebalanceType)
               /\ rbNeeded' = NONE
               /\ UNCHANGED isApproving
          ELSE /\ rbPc' = "allowance"
               /\ rbNeeded' = provide
               /\ isApproving' = TRUE
    /\ UNCHANGED <<RbProps, rbAllowance, maxValue, maxLoads, rbAmount>>

\* `await token.allowance(address, vaultAddress)` settles
rbAllowanceRead ==
    /\ rbPc = "allowance"
    /\ IF AllowanceInsufficient(rbAllowance, rbNeeded)
       THEN /\ rbPc' = "approve"
            /\ UNCHANGED <<rbSuccess, isApproving>>
       ELSE /\ rbPc' = AfterApprovalStep(rebalanceType)
            /\ rbSuccess' = "All tokens already approved."
            /\ isApproving' = FALSE
    /\ UNCHANGED <<RbProps, rbAllowance, maxValue, maxLoads, rbAmount, rbLoading,
                   rbError, approvalError, rbNeeded, rbTxs>>

\* `await token.approve(vaultAddress, item.amount)` resolves
rbApprove ==
    /\ rbPc = "approve"
    /\ rbTxs' = Append(rbTxs, Tx("approve", ApproveAmount(rbNeeded), FALSE))
    /\ rbPc' = "approveWait"
    /\ UNCHANGED <<RbProps, rbAllowance, maxValue, maxLoads, rbAmount, rbLoading,
                   isApproving, RbMessages, rbNeeded>>

\* `await tx.wait()` of the approval resolves
rbApproveWait ==
    /\ rbPc = "approveWait"
    /\ rbTxs' = ConfirmLast(rbTxs)
    /\ rbAllowance' = rbTxs[Len(rbTxs)].amt
    /\ rbSuccess' = "Successfully approved."
    /\ isApproving' = FALSE
    /\ rbPc' = AfterApprovalStep(rebalanceType)
    /\ UNCHANGED <<RbProps, maxValue, maxLoads, rbAmount, rbLoading, rbError,
                   approvalError, rbNeeded>>

\* an await of checkAndApproveRequiredAssets rejects: its own catch sets
\* approvalError and handleSubmit goes on
rbApprovalThrows ==
    /\ rbPc \in {"allowance", "approve", "approveWait"}
    /\ \E rejected \in BOOLEAN :
          approvalError' = IF rejected /\ rbPc = "approve"
                           THEN "Approval canceled by user."
                           ELSE "Failed to approve required tokens."
    /\ isApproving' = FALSE
    /\ rbPc' = AfterApprovalStep(rebalanceType)
    /\ UNCHANGED <<RbProps, rbAllowance, maxValue, maxLoads, rbAmount, rbLoading,
                   rbError, rbSuccess, rbNeeded, rbTxs>>

RbEnd(err, succ) ==
    /\ rbPc' = "idle"
    /\ rbLoading' = FALSE
    /\ rbError' = err
    /\ rbSuccess' = succ

\* `await vaultLens.previewLowLevelRebalance{Borrow,Collateral}(amount)`
rbPreview ==
    /\ rbPc = "preview"
    /\ \E deltaShares \in {0 - 1, 0, 1} :
          IF deltaShares = 0
          THEN RbEnd("Failed to preview leveraged tokens delta", rbSuccess)
          ELSE /\ rbPc' = "estimateGas"
               /\ UNCHANGED <<rbLoading, rbError, rbSuccess>>
    /\ UNCHANGED <<RbProps, rbAllowance, maxValue, maxLoads, rbAmount, isApproving,
                   approvalError, rbNeeded, rbTxs>>

rbEstimateGas ==
    /\ rbPc = "estimateGas"
    /\ rbPc' = "send"
    /\ UNCHANGED <<RbProps, rbAllowance, maxValue, maxLoads, rbAmount, rbLoading,
                   isApproving, RbMessages, rbNeeded, rbTxs>>

\* `await vault.executeLowLevelRebalance...(amount, ...)` resolves
rbSend ==
    /\ rbPc = "send"
    /\ rbTxs' = Append(rbTxs, Tx("rebalance", CHOOSE v \in rbAmount : TRUE, FALSE))
    /\ rbPc' = "wait"
    /\ UNCHANGED <<RbProps, rbAllowance, maxValue, maxLoads, rbAmount, rbLoading,
                   isApproving, RbMessages, rbNeeded>>

rbWait ==
    /\ rbPc = "wait"
    /\ rbTxs' = ConfirmLast(rbTxs)
    /\ rbPc' = "refresh"
    /\ UNCHANGED <<RbProps, rbAllowance, maxValue, maxLoads, rbAmount, rbLoading,
                   isApproving, RbMessages, rbNeeded>>

\* Promise.all([refreshBalances(), refreshVaultLimits()]) resolves; the
\* handler clears the input and calls loadMaxValue()
rbRefresh ==
    /\ rbPc = "refresh"
    /\ maxLoads < MaxLoads
    /\ rbAmount' = {}
    /\ maxLoads' = maxLoads + 1
    /\ RbEnd(rbError, "Low level rebalance executed successfully!")
    /\ UNCHANGED <<RbProps, rbAllowance, maxValue, isApproving, approvalError,
                   rbNeeded, rbTxs>>

\* an await of handleSubmit itself rejects: catch and finally
rbThrow ==
    /\ rbPc \in {"preview", "estimateGas", "send", "wait"}
    /\ \E rejected \in BOOLEAN :
          RbEnd(IF rejected /\ rbPc = "send"
                THEN "Transaction canceled by user."
                ELSE "Failed to execute low level rebalance.", rbSuccess)
    /\ UNCHANGED <<RbProps, rbAllowance, maxValue, maxLoads, rbAmount, isApproving,
                   approvalError, rbNeeded, rbTxs>>

RebalanceNext ==
    \/ MaxValueSettles
    \/ rbHandleInputChange
    \/ handleMaxClick
    \/ rbHandleSubmit
    \/ rbAllowanceRead
    \/ rbApprove
    \/ rbApproveWait
    \/ rbApprovalThrows
    \/ rbPreview
    \/ rbEstimateGas
    \/ rbSend
    \/ rbWait
    \/ rbRefresh
    \/ rbThrow

\* the selected direction contradicts the sign of the vault's max
DirectionMismatch ==
    /\ rebalanceType # "shares"
    /\ \/ vaultMax < 0 /\ rbActionType = "receive"
       \/ vaultMax > 0 /\ rbActionType = "provide"

\* C10: a rebalance by borrow or collateral amount whose direction does not
\* match the sign of the vault's max shows an availability of zero and no
\* rebalance transaction is sent for it.
C10_MismatchedDirectionNotAttempted ==
    DirectionMismatch =>
        /\ maxValue \subseteq {0}
        /\ \A i \in 1..Len(rbTxs) : rbTxs[i].type # "rebalance"

\* a click on MAX leaves the loaded max itself in `amount`
MaxClickSetsMax == handleMaxClick => rbAmount' = maxValue

\* C39: in low-level rebalance by borrow or by collateral amount, whenever
\* the computed available max is non-zero, clicking Max sets a signed amount
\* with the same sign as that max and magnitude |max|, so that the amount
\* then submitted lies within the vault's signed limit.
C39_MaxClickSetsSignedMax == [][MaxClickSetsMax]_vars

BorrowMaxNegativeLoaded ==
    rebalanceType = "borrow" /\ vaultMax < 0 /\ maxValue # {}

\* C11 as stated: in a rebalance by borrow delta with a negative vault max,
\* 'receive' gives an available max of zero and 'provide' gives
\* min(userBalance, |vaultMax|).
C11_BorrowMaxAsStated ==
    BorrowMaxNegativeLoaded =>
        /\ rbActionType = "receive" => maxValue = {0}
        /\ rbActionType = "provide" => maxValue = {Min(userBalance, Abs(vaultMax))}

\* C11 amended: in a rebalance by borrow delta with a negative vault max,
\* 'receive' gives an available max of zero and 'provide' gives the signed
\* value -min(userBalance, |vaultMax|): the magnitude is the stated one and
\* the sign is that of the vault max.
C11_BorrowMaxSigned ==
    BorrowMaxNegativeLoaded =>
        /\ rbActionType = "receive" => maxValue = {0}
        /\ rbActionType = "provide" => maxValue = {0 - Min(userBalance, Abs(vaultMax))}

C11_Witness ==
    /\ BorrowMaxNegativeLoaded
    /\ rbActionType = "provide"
    /\ userBalance < Abs(vaultMax)
    /\ maxValue = {0 - userBalance}
    /\ userBalance > 0

\* =====================================================================
\* Effective maxima: calculateMaxValues (VaultContext) and the flash-loan
\* helper's setMaxMint / setMaxRedeem.
\* The context keeps balances and limits as decimal strings; every
\* calculation parses them and formats its results. calculateMaxValues
\* computes eight maxima, four actions on two sides, each from the balances
\* and from its own limit field, and sets all eight or none: a behaviour
\* follows one of the eight, named by tokenSide and maxAction.

\* decimals of the tokens and of the shares
Decimals == 1

Scale == 10 ^ Decimals

\* GAS_RESERVE_WEI, counted in the model's smallest unit
GAS_RESERVE_WEI == 1

GAS_RESERVE_MULTIPLIER == 3

GAS_RESERVE == GAS_RESERVE_WEI * GAS_RESERVE_MULTIPLIER

MINT_MAX_SLIPPAGE_DIVIDEND == 999999

MINT_MAX_SLIPPAGE_DIVIDER == 1000000

Decimal(neg, whole, frac) == [neg |-> neg, whole |-> whole, frac |-> frac]

\* the empty string '' of useState('')
EMPTY == Decimal(FALSE, NONE, NONE)

formatUnits(x) == Decimal(x < 0, Abs(x) \div Scale, Abs(x) % Scale)

\* parseUnits throws on ''
CanParse(str) == str # EMPTY

parseUnits(str) == (IF str.neg THEN 0 - 1 ELSE 1) * (str.whole * Scale + str.frac)

Strings == {formatUnits(a) : a \in Amounts}

clampToPositive(x) == IF x > 0 THEN x ELSE 0

minBigInt(a, b) == IF a < b THEN a ELSE b

\* mutant: the reserve is subtracted without the clamp
AvailableEthUnclamped(isWeth, eth) ==
    IF isWeth THEN eth - GAS_RESERVE_WEI ELSE 0

AvailableEth(isWeth, eth) ==
    IF isWeth THEN clampToPositive(eth - GAS_RESERVE_WEI) ELSE 0

\* mutant: the native balance is never counted
DepositBudgetTokenOnly(isWeth, token, eth) == token

DepositBudget(isWeth, token, eth) ==
    IF isWeth THEN token + AvailableEth(isWeth, eth) ELSE token

MaxFields == {"deposit", "redeem", "mint", "withdraw"}

\* the value handed to the setter of one action
MaxValue(action, isWeth, eth, token, shares, limit, sharesForToken, sharesForEth) ==
    CASE action = "deposit"  -> formatUnits(minBigInt(DepositBudget(isWeth, token, eth), limit))
      [] action = "redeem"   -> formatUnits(minBigInt(shares, limit))
      [] action = "mint"     -> formatUnits(minBigInt(sharesForToken + sharesForEth, limit))
      [] action = "withdraw" -> formatUnits(limit)

applyMaxMintSlippage(a) == (a * MINT_MAX_SLIPPAGE_DIVIDEND) \div MINT_MAX_SLIPPAGE_DIVIDER

MaxInit ==
    /\ tokenSide \in {"borrow", "collateral"}
    /\ maxAction \in MaxFields
    /\ isTokenWeth \in BOOLEAN
    /\ ethBalanceStr \in Strings \cup {EMPTY}
    /\ tokenBalanceStr \in Strings \cup {EMPTY}
    /\ sharesBalanceStr \in Strings \cup {EMPTY}
    /\ vaultMaxStr \in Strings \cup {EMPTY}
    /\ userMax = EMPTY
    /\ maxAmount = EMPTY
    /\ withdrawMaxAmount = EMPTY
    /\ withdrawErrorLogged = FALSE

MaxParked ==
    /\ MaxInit
    /\ tokenSide = "borrow"
    /\ maxAction = "deposit"
    /\ ~isTokenWeth
    /\ ethBalanceStr = EMPTY
    /\ tokenBalanceStr = EMPTY
    /\ sharesBalanceStr = EMPTY
    /\ vaultMaxStr = EMPTY

MaxInputs == <<tokenSide, maxAction, isTokenWeth, ethBalanceStr, tokenBalanceStr,
               sharesBalanceStr, vaultMaxStr>>

MaxFrame == <<submitVars, contextVars, previewVars, rebalanceVars, helperVars, pollerVars, lateVars>>

\* the effect that calls calculateMaxValues; loadVaultLimits sets all limits
\* in one batch
MaxEffectRuns ==
    /\ \E b \in {ethBalanceStr, tokenBalanceStr, sharesBalanceStr} : b # EMPTY
    /\ vaultMaxStr # EMPTY

MaxInputsParse ==
    \A b \in {ethBalanceStr, tokenBalanceStr, sharesBalanceStr, vaultMaxStr} : CanParse(b)

\* the results of the previewDeposit reads: they enter the mint only
PreviewedShares(weth) ==
    IF maxAction = "mint" /\ weth THEN Amounts
    ELSE {0}

\* calculateMaxValues up to its setters
calculateMaxValues ==
    /\ MaxEffectRuns
    /\ MaxInputsParse
    /\ \E sharesForToken \in PreviewedShares(TRUE), sharesForEth \in PreviewedShares(isTokenWeth) :
            userMax' = MaxValue(maxAction, isTokenWeth, parseUnits(ethBalanceStr),
                                parseUnits(tokenBalanceStr), parseUnits(sharesBalanceStr),
                                parseUnits(vaultMaxStr), sharesForToken, sharesForEth)
    /\ UNCHANGED <<MaxFrame, MaxInputs, maxAmount, withdrawMaxAmount, withdrawErrorLogged>>

\* calculateMaxValues when a parse throws or a previewDeposit rejects: the
\* catch logs and sets nothing
calculateMaxValuesThrows ==
    /\ MaxEffectRuns
    /\ UNCHANGED vars

\* FlashLoanHelperHandler.setMaxMint in a wstETH vault (it does nothing in
\* another vault); the balance it reads is the collateral token's
setMaxMint ==
    /\ tokenSide = "collateral"
    /\ ethBalanceStr # EMPTY
    /\ tokenBalanceStr # EMPTY
    /\ \E sharesFromCollateral \in Amounts, sharesFromEth \in Amounts, vaultMaxMint \in Amounts :
            maxAmount' = formatUnits(applyMaxMintSlippage(
                            minBigInt(clampToPositive(sharesFromCollateral + sharesFromEth
                                                      - GAS_RESERVE),
                                      vaultMaxMint)))
    /\ UNCHANGED <<MaxFrame, MaxInputs, userMax, withdrawMaxAmount, withdrawErrorLogged>>

\* FlashLoanHelperHandler.setMaxRedeem
setMaxRedeem ==
    /\ maxAmount' = sharesBalanceStr
    /\ UNCHANGED <<MaxFrame, MaxInputs, userMax, withdrawMaxAmount, withdrawErrorLogged>>

\* FlashLoanDepositWithdrawHandler.setMaxWithdraw, run by its effect on mount
\* and whenever a balance it depends on is set again (collateralTokenBalance
\* is not followed on the borrow side)
setMaxWithdraw ==
    /\ tokenSide = "borrow"
    /\ maxAction = "withdraw"
    /\ IF sharesBalanceStr = EMPTY
       THEN /\ withdrawMaxAmount' = formatUnits(0)
            /\ withdrawErrorLogged' = FALSE
       ELSE \E ok \in BOOLEAN, maxWeth \in Amounts :
                /\ withdrawMaxAmount' = IF ok THEN formatUnits(maxWeth) ELSE formatUnits(0)
                /\ withdrawErrorLogged' = ~ok
    /\ UNCHANGED <<MaxFrame, MaxInputs, userMax, maxAmount>>

MaxNext ==
    \/ calculateMaxValues
    \/ calculateMaxValuesThrows
    \/ setMaxMint
    \/ setMaxRedeem
    \/ setMaxWithdraw

\* ---------------------------------------------------------------------
\* Claims about the effective maxima

MaxCalculated == userMax # EMPTY

\* C12: the available max for withdraw and for redeem, on the borrow side and
\* on the collateral side, is the minimum of the vault's limit and the user's
\* share or token balance.
C12_WithdrawRedeemMaxIsMin ==
    /\ MaxCalculated /\ maxAction = "redeem" =>
            parseUnits(userMax) = Min(parseUnits(vaultMaxStr), parseUnits(sharesBalanceStr))
    /\ MaxCalculated /\ maxAction = "withdraw" =>
            parseUnits(userMax) \in {Min(parseUnits(vaultMaxStr), parseUnits(sharesBalanceStr)),
                                     Min(parseUnits(vaultMaxStr), parseUnits(tokenBalanceStr))}

\* C13: the deposit max is min(vaultMaxDeposit, tokenBalance + max(0,
\* nativeBalance - gasReserve)) when the token is the wrapped-native asset
\* and min(vaultMaxDeposit, tokenBalance) otherwise.
C13_DepositMaxCountsNativeAboveReserve ==
    MaxCalculated /\ maxAction = "deposit" =>
        LET token == parseUnits(tokenBalanceStr)
            over  == parseUnits(ethBalanceStr) - GAS_RESERVE_WEI
            limit == parseUnits(vaultMaxStr)
        IN  parseUnits(userMax)
                = IF isTokenWeth
                  THEN Min(limit, token + (IF over > 0 THEN over ELSE 0))
                  ELSE Min(limit, token)

C13_Witness ==
    /\ MaxCalculated
    /\ maxAction = "deposit"
    /\ isTokenWeth
    /\ parseUnits(ethBalanceStr) > GAS_RESERVE_WEI
    /\ parseUnits(tokenBalanceStr) < parseUnits(vaultMaxStr)
    /\ userMax = vaultMaxStr

\* C14: every computed deposit or mint maximum is at least zero, also when
\* the native balance is below the gas reserve.
C14_DepositMintMaxNonNegative ==
    /\ MaxCalculated /\ maxAction \in {"deposit", "mint"} => parseUnits(userMax) >= 0
    /\ maxAmount # EMPTY => parseUnits(maxAmount) >= 0

C14_Witness ==
    /\ MaxCalculated
    /\ maxAction = "deposit"
    /\ tokenSide = "collateral"
    /\ isTokenWeth
    /\ parseUnits(ethBalanceStr) < GAS_RESERVE_WEI
    /\ sharesBalanceStr # formatUnits(0)
    /\ maxAmount = formatUnits(0)

\* ---------------------------------------------------------------------
\* Claims about the outcome of a declined signature

\* C15: when the signer declines to sign a wrap, approval or main
\* transaction the outcome is not an error: the attempt ends with no error
\* message set.
C15_DeclinedSignatureShowsNoError ==
    pc = "idle" => error # "Transaction canceled by user."

\* =====================================================================
\* FlashLoanHelperHandler: input, preview, insufficient-balance effect and
\* submission

HelperTypes == {"mint", "redeem"}

\* mutant: a buffer of 10^-7
reduceByTenfoldBuffer(value) == MulDiv(value, 9999999, 10000000)

reduceByPrecisionBuffer(value) == MulDiv(value, 99999999, 100000000)

\* previewMintSharesWithFlashLoanCollateral / previewRedeemSharesWithCurveAndFlashLoanBorrow
\* followed by the precision buffer: what a successful loadPreview stores
PreviewedAmount(shares) == reduceByPrecisionBuffer(shares * collateralPerShare)

\* isValid of useFlashLoanPreview, the helpers being connected
HelperValid(shares) == shares # NONE /\ shares > 0

\* the insufficient-balance effect, run after a change of its dependencies
InsufficientAfter(shares, preview, loadingNow, before) ==
    IF ~HelperValid(shares) THEN FALSE
    ELSE IF helperType = "redeem"
         THEN IF loadingNow THEN before ELSE helperSharesBalance < shares
         ELSE IF preview # NONE /\ preview # 0
              THEN helperCollateralBalance < preview
              ELSE FALSE

\* disabled of the submit button, the max and min checks passing
SubmitDisabled ==
    \/ flashLoading
    \/ ~HelperValid(sharesToProcess)
    \/ hasInsufficientBalance
    \/ isErrorLoadingPreview

HelperInit ==
    /\ helperType \in HelperTypes
    /\ helperSharesBalance \in Amounts
    /\ helperCollateralBalance \in Amounts
    /\ collateralPerShare \in 1..MaxAmount
    /\ sharesToProcess = NONE
    /\ helperPreview = NONE
    /\ isErrorLoadingPreview = FALSE
    /\ helperLoads = {}
    /\ hasInsufficientBalance = FALSE
    /\ flashLoading = FALSE
    /\ helperCalls = {}

HelperParked ==
    /\ HelperInit
    /\ helperType = "mint"
    /\ helperSharesBalance = 0
    /\ helperCollateralBalance = 0
    /\ collateralPerShare = 1

HelperProps == <<submitVars, contextVars, previewVars, rebalanceVars, maxVars, pollerVars, lateVars, helperType,
                 helperSharesBalance, helperCollateralBalance, collateralPerShare>>

\* handleInputChange, then the effects of the new sharesToProcess: the hook
\* starts a load at once when the input is valid and otherwise only clears
\* its interval
helperHandleInputChange ==
    /\ ~flashLoading
    /\ \E v \in {NONE} \cup Amounts :
          /\ v # sharesToProcess
          /\ sharesToProcess' = v
          /\ helperLoads' = IF HelperValid(v) THEN helperLoads \cup {v} ELSE helperLoads
          /\ isErrorLoadingPreview' = IF HelperValid(v) THEN FALSE ELSE isErrorLoadingPreview
          /\ hasInsufficientBalance' =
                InsufficientAfter(v, helperPreview, flashLoading, hasInsufficientBalance)
    /\ UNCHANGED <<HelperProps, helperPreview, flashLoading, helperCalls>>

\* the 6 s interval calls loadPreview of the current input
helperIntervalFires ==
    /\ HelperValid(sharesToProcess)
    /\ sharesToProcess \notin helperLoads
    /\ helperLoads' = helperLoads \cup {sharesToProcess}
    /\ isErrorLoadingPreview' = FALSE
    /\ UNCHANGED <<HelperProps, sharesToProcess, helperPreview, hasInsufficientBalance,
                   flashLoading, helperCalls>>

\* the read of a loadPreview settles; the insufficient-balance effect follows
\* the new previewData
helperPreviewSettles ==
    \E v \in helperLoads, ok \in BOOLEAN :
        /\ helperLoads' = helperLoads \ {v}
        /\ helperPreview' = IF ok THEN PreviewedAmount(v) ELSE NONE
        /\ isErrorLoadingPreview' = IF ok THEN isErrorLoadingPreview ELSE TRUE
        /\ hasInsufficientBalance' =
              InsufficientAfter(sharesToProcess, helperPreview', flashLoading,
                                hasInsufficientBalance)
        /\ UNCHANGED <<HelperProps, sharesToProcess, flashLoading, helperCalls>>

\* handleSubmit through the enabled button, up to flashLoan.execute()
helperHandleSubmit ==
    /\ ~SubmitDisabled
    /\ flashLoading' = TRUE
    /\ helperCalls' = helperCalls \cup
            {[mode |-> helperType, sharesAmount |-> sharesToProcess,
              previewAmount |-> helperPreview]}
    /\ UNCHANGED <<HelperProps, sharesToProcess, helperPreview, isErrorLoadingPreview,
                   helperLoads, hasInsufficientBalance>>

HelperNext ==
    \/ helperHandleInputChange
    \/ helperIntervalFires
    \/ helperPreviewSettles
    \/ helperHandleSubmit

\* ---------------------------------------------------------------------
\* Claims about the helper's submission

\* the amount the input requires exceeds the user's balance
RequiredExceedsBalance(mode, shares) ==
    IF mode = "redeem" THEN shares > helperSharesBalance
    ELSE PreviewedAmount(shares) > helperCollateralBalance

\* C16: whenever the amount required by the entered input exceeds the user's
\* known balance, submission is blocked: no wrap, approval or transaction
\* call is made for that input. Only the calls that carry a preview amount
\* are counted.
C16_InsufficientBalanceBlocksSubmission ==
    \A c \in helperCalls :
        c.previewAmount # NONE => ~RequiredExceedsBalance(c.mode, c.sharesAmount)

\* C35: when a flash-loan transaction is submitted, the preview data used to
\* derive its approval and execution amounts was computed for exactly the
\* input amount being submitted; a preview computed for an earlier input
\* is never combined with a newer amount.
C35_PreviewOfSubmittedAmount ==
    \A c \in helperCalls :
        c.previewAmount # NONE => c.previewAmount = PreviewedAmount(c.sharesAmount)

\* ---------------------------------------------------------------------
\* Claims about the preview timers

\* every scheduled timer was set for the current input and selection
TimersCurrent ==
    \A t \in timers : t.amount = inputAmount /\ t.selection = selection

\* a read issued by a timer callback is a read of the current input and selection
TimerReadsCurrent ==
    Len(reads') > Len(reads) /\ reads'[Len(reads')].delay > 0 =>
        /\ reads'[Len(reads')].amount = inputAmount
        /\ reads'[Len(reads')].selection = selection

INITIAL_DELAY == 12000

TVL_INITIAL_DELAY == 24000

MAX_DELAY == 60000

MULTIPLIER == 2

\* ticks without a change followed by the model
MaxNoChange == 4

PollStep == INITIAL_DELAY

\* mutant: the delay grows without the ceiling
NextDelayUncapped(delay) == delay * MULTIPLIER

\* the delay after a successful tick without a change
NextDelay(delay) == Min(delay * MULTIPLIER, MAX_DELAY)

PollerInit ==
    /\ pollInitialDelay \in {INITIAL_DELAY, TVL_INITIAL_DELAY}
    /\ pollEnabled \in BOOLEAN
    /\ pollDelay = pollInitialDelay
    /\ pollNoChange = 0
    /\ pollLast \in Amounts
    /\ pollWait = IF pollEnabled THEN pollInitialDelay ELSE NONE

PollerParked ==
    /\ PollerInit
    /\ pollInitialDelay = INITIAL_DELAY
    /\ ~pollEnabled
    /\ pollLast = 0

PollerFrame == <<submitVars, contextVars, previewVars, rebalanceVars, maxVars, helperVars,
                 lateVars, pollInitialDelay>>

\* time passes on the pending timer
pollWaits ==
    /\ pollWait # NONE
    /\ pollWait > 0
    /\ pollWait' = pollWait - PollStep
    /\ UNCHANGED <<PollerFrame, pollEnabled, pollDelay, pollNoChange, pollLast>>

\* the timer fires, the callback succeeds and nothing changed
pollTickNoChange ==
    /\ pollWait = 0
    /\ pollNoChange < MaxNoChange
    /\ pollDelay' = NextDelay(pollDelay)
    /\ pollNoChange' = pollNoChange + 1
    /\ pollWait' = pollDelay'
    /\ UNCHANGED <<PollerFrame, pollEnabled, pollLast>>

\* the timer fires and a change is detected
pollTickChanged ==
    /\ pollWait = 0
    /\ \E v \in Amounts \ {pollLast} : pollLast' = v
    /\ pollDelay' = pollInitialDelay
    /\ pollNoChange' = 0
    /\ pollWait' = pollDelay'
    /\ UNCHANGED <<PollerFrame, pollEnabled>>

\* enabled becomes false: the pending timer is cancelled
pollDisabled ==
    /\ pollEnabled
    /\ pollEnabled' = FALSE
    /\ pollWait' = NONE
    /\ UNCHANGED <<PollerFrame, pollDelay, pollNoChange, pollLast>>

\* enabled becomes true, or a dependency changes: the schedule restarts at
\* initialDelay and fires at once
pollRestarted ==
    /\ pollEnabled' = TRUE
    /\ pollDelay' = pollInitialDelay
    /\ pollNoChange' = 0
    /\ pollWait' = 0
    /\ UNCHANGED <<PollerFrame, pollLast>>

PollerNext ==
    \/ pollWaits
    \/ pollTickNoChange
    \/ pollTickChanged
    \/ pollDisabled
    \/ pollRestarted

\* ---------------------------------------------------------------------
\* Claims about the polling schedule

\* C17: with initialDelay d, multiplier m and maxDelay M, after k consecutive
\* successful no-change ticks the next delay is min(d * m^k, M), and a
\* detected change resets the next delay to d (k = 0).
C17_DelayIsCappedPower ==
    pollDelay = Min(pollInitialDelay * MULTIPLIER ^ pollNoChange, MAX_DELAY)

C17_Witness ==
    /\ pollInitialDelay = INITIAL_DELAY
    /\ pollNoChange = 3
    /\ pollDelay = MAX_DELAY
    /\ pollWait = MAX_DELAY

\* ---------------------------------------------------------------------
\* Claims about failed reads

\* a step in which setMaxWithdraw's read failed while a value was loaded
FailedReadKeepsValue ==
    withdrawErrorLogged' /\ withdrawMaxAmount # EMPTY =>
        withdrawMaxAmount' = withdrawMaxAmount

\* C19: when a read of a tracked quantity fails, the previously loaded value
\* is left unchanged and no fallback value (zero or null) is written in its
\* place.
C19_FailedReadWritesNoFallback == [][FailedReadKeepsValue]_vars

\* ---------------------------------------------------------------------
\* Claims about the preview of an invalid input

\* C20: whenever the current input becomes empty, non-positive or
\* unparsable, the previously held preview result is discarded: once the
\* hook's timers have run and its reads have settled, no preview data
\* computed for an earlier input remains stored.
C20_InvalidInputDiscardsPreview ==
    ~ValidInput(hook, inputAmount) /\ timers = {} /\ pending = {} =>
        previewData = NoPreview

\* =====================================================================
\* Component: the state one loadPreview call leaves behind
\* =====================================================================
LoadPreviewHooks == Hooks \cup FlashHooks

\* the hook keeps isErrorLoadingPreview and invalidRebalanceMode
HasErrorState(h) == h \in FlashHooks

RevertReasons == {"InvalidRebalanceMode", "other"}

\* what the read returns for the amount, as loadPreview stores it
StoredPreview(h, v) == IF h \in FlashHooks THEN reduceByPrecisionBuffer(v) ELSE v

\* amounts a flash-loan preview read returns: zero and the neighbours of
\* m * 10^e up to the size where the buffer's denominator matters
PrecisionInputs ==
    {0} \cup {m * 10 ^ e + d : m \in 1..MaxAmount, e \in 0..8, d \in {0 - 1, 0, 1}}

ReadValues(h) == IF h \in FlashHooks THEN PrecisionInputs ELSE Amounts

OutcomeInit ==
    /\ lpHook \in LoadPreviewHooks
    /\ lpAmount = NONE
    /\ lpPreviewData = NONE
    /\ lpIsErrorLoadingPreview = FALSE
    /\ lpInvalidRebalanceMode = FALSE
    /\ lpAwaiting = {}
    /\ lpReturned = NONE
    /\ lpOutcome = "none"

OutcomeParked == OutcomeInit /\ lpHook = "useActionPreview"

EarlierVars == <<submitVars, contextVars, previewVars, rebalanceVars, maxVars, helperVars,
                 pollerVars>>

OutcomeFrame == <<EarlierVars, legVars, wrapVars, txVars, minVars, finalVars, lpHook>>

\* the user edits the input
lpSetAmount ==
    /\ \E v \in (Amounts \cup {NONE}) \ {lpAmount} : lpAmount' = v
    /\ UNCHANGED <<OutcomeFrame, lpPreviewData, lpIsErrorLoadingPreview,
                   lpInvalidRebalanceMode, lpAwaiting, lpReturned, lpOutcome>>

\* the timer or the effect calls loadPreview for an input that is not valid;
\* the effect of hooks/useFlashLoanPreview does not call it then
lpLoadPreviewInvalid ==
    /\ lpAwaiting = {}
    /\ ~ValidInput(lpHook, lpAmount)
    /\ lpHook # "useFlashLoanPreview"
    /\ lpPreviewData' = NONE
    /\ lpOutcome' = "invalid"
    /\ UNCHANGED <<OutcomeFrame, lpAmount, lpIsErrorLoadingPreview,
                   lpInvalidRebalanceMode, lpAwaiting, lpReturned>>

\* loadPreview for a valid input, up to its await; the model follows one
\* call at a time
lpLoadPreview ==
    /\ lpAwaiting = {}
    /\ ValidInput(lpHook, lpAmount)
    /\ lpAwaiting' = {lpAmount}
    /\ lpIsErrorLoadingPreview' = FALSE
    /\ lpInvalidRebalanceMode' = FALSE
    /\ UNCHANGED <<OutcomeFrame, lpAmount, lpPreviewData, lpReturned, lpOutcome>>

\* the read resolves
lpReadResolves ==
    \E v \in lpAwaiting, r \in ReadValues(lpHook) :
        /\ lpReturned' = r
        /\ lpPreviewData' = StoredPreview(lpHook, r)
        /\ lpAwaiting' = {}
        /\ lpOutcome' = "ok"
        /\ UNCHANGED <<OutcomeFrame, lpAmount, lpIsErrorLoadingPreview,
                       lpInvalidRebalanceMode>>

\* the contract reverts: the catch block
lpReadReverts ==
    \E v \in lpAwaiting, reason \in RevertReasons :
        /\ lpPreviewData' = NONE
        /\ lpIsErrorLoadingPreview' = HasErrorState(lpHook)
        /\ lpInvalidRebalanceMode' =
               (HasErrorState(lpHook) /\ reason = "InvalidRebalanceMode")
        /\ lpAwaiting' = {}
        /\ lpReturned' = NONE
        /\ lpOutcome' = "revert"
        /\ UNCHANGED <<OutcomeFrame, lpAmount>>

\* the reset effect on a change of the action, token side or helper type
lpReset ==
    /\ lpOutcome # "none"
    /\ lpAwaiting = {}
    /\ lpPreviewData' = NONE
    /\ lpIsErrorLoadingPreview' = FALSE
    /\ lpInvalidRebalanceMode' = FALSE
    /\ lpReturned' = NONE
    /\ lpOutcome' = "none"
    /\ UNCHANGED <<OutcomeFrame, lpAmount, lpAwaiting>>

OutcomeNext ==
    \/ lpSetAmount
    \/ lpLoadPreviewInvalid
    \/ lpLoadPreview
    \/ lpReadResolves
    \/ lpReadReverts
    \/ lpReset

\* what the hook returns about its preview
ReturnedPreview == <<lpPreviewData, lpIsErrorLoadingPreview, lpInvalidRebalanceMode>>

\* what it returns after a loadPreview call for an empty or invalid amount
\* in a hook that had no failure before
ReturnedForInvalid == <<NONE, FALSE, FALSE>>

\* C22: a contract revert during any preview call is caught and leaves the
\* preview in a 'preview unavailable' state that differs from the state of
\* an invalid or empty input.
C22_RevertIsDistinctFromInvalid ==
    lpOutcome = "revert" => ReturnedPreview # ReturnedForInvalid

\* a flash-loan preview is stored for the amount x its read returned
BufferApplied == lpHook \in FlashHooks /\ lpOutcome = "ok"

\* x - reduceByPrecisionBuffer(x)
BufferLoss == lpReturned - lpPreviewData

\* C28 as stated: for all non-negative integers x,
\* 0 <= reduceByPrecisionBuffer(x) <= x and
\* x - reduceByPrecisionBuffer(x) <= x / 10_000_000.
C28_BufferWithinRelativeBound ==
    BufferApplied =>
        /\ 0 <= lpPreviewData /\ lpPreviewData <= lpReturned
        /\ BufferLoss * 10 ^ 7 <= lpReturned

\* C28: for all non-negative integers x, 0 <= reduceByPrecisionBuffer(x) <= x
\* and x - reduceByPrecisionBuffer(x) is x / 10^8 rounded up: at most one
\* unit for x below 10^7, and at most x / 10_000_000 from 10^7 on.
C28_BufferLossIsCeiling ==
    BufferApplied =>
        /\ 0 <= lpPreviewData /\ lpPreviewData <= lpReturned
        /\ BufferLoss = (lpReturned + 10 ^ 8 - 1) \div 10 ^ 8
        /\ lpReturned < 10 ^ 7 => BufferLoss <= 1
        /\ lpReturned >= 10 ^ 7 => BufferLoss * 10 ^ 7 <= lpReturned

C28_Witness ==
    /\ BufferApplied
    /\ lpReturned = 10 ^ 7 - 1
    /\ lpPreviewData = 10 ^ 7 - 2

\* =====================================================================
\* Component: getReceiveAndProvide (LowLevelRebalanceHandler,
\* useActionPreview, useFlashLoanPreview)
\* =====================================================================
LegForms == {"LowLevelRebalanceHandler", "useActionPreview", "useFlashLoanPreview"}

LegKinds(f) ==
    CASE f = "LowLevelRebalanceHandler" -> RebalanceTypes
      [] f = "useActionPreview" -> ActionTypes
      [] OTHER -> HelperTypes

\* signed amounts: deltas of a rebalance preview and its signed input
Deltas == (0 - MaxAmount)..MaxAmount

Leg(v, tokenType) == [amount |-> v, tokenType |-> tokenType]

NoLegs == [provide |-> <<>>, receive |-> <<>>]

Provide(legs, v, tokenType) ==
    [legs EXCEPT !.provide = Append(@, Leg(v, tokenType))]

Receive(legs, v, tokenType) ==
    [legs EXCEPT !.receive = Append(@, Leg(v, tokenType))]

\* mutant: addToList without its invertSign parameter
addToListNeverInverted(legs, value, tokenType, invertSign) ==
    IF value = 0 THEN legs
    ELSE IF value > 0 THEN Provide(legs, Abs(value), tokenType)
    ELSE Receive(legs, Abs(value), tokenType)

\* addToList of LowLevelRebalanceHandler.getReceiveAndProvide
addToList(legs, value, tokenType, invertSign) ==
    IF value = 0 THEN legs
    ELSE IF (IF invertSign THEN value < 0 ELSE value > 0)
         THEN Provide(legs, Abs(value), tokenType)
         ELSE Receive(legs, Abs(value), tokenType)

\* the leg of the input amount of a rebalance
RebalanceInputLeg(rebalanceTypeP, inputAmt) ==
    IF inputAmt = NONE \/ inputAmt = 0 THEN NoLegs
    ELSE LET isInputPositive ==
                 IF rebalanceTypeP = "borrow" THEN inputAmt < 0 ELSE inputAmt > 0
         IN IF isInputPositive = (rebalanceTypeP = "shares")
            THEN Receive(NoLegs, Abs(inputAmt), rebalanceTypeP)
            ELSE Provide(NoLegs, Abs(inputAmt), rebalanceTypeP)

\* getReceiveAndProvide of LowLevelRebalanceHandler; first and second are
\* result[0] and result[1] of the preview call
RebalanceLegs(rebalanceTypeP, inputAmt, preview) ==
    IF preview = {} THEN NoLegs
    ELSE LET d == CHOOSE x \in preview : TRUE
             input == RebalanceInputLeg(rebalanceTypeP, inputAmt)
         IN CASE rebalanceTypeP = "shares" ->
                   addToList(addToList(input, d.first, "collateral", FALSE),
                             d.second, "borrow", TRUE)
              [] rebalanceTypeP = "borrow" ->
                   addToList(addToList(input, d.first, "collateral", FALSE),
                             d.second, "shares", TRUE)
              [] OTHER ->
                   addToList(addToList(input, d.first, "borrow", TRUE),
                             d.second, "shares", TRUE)

\* getReceiveAndProvide of useActionPreview for the token side tokenType;
\* first is previewData.shares or previewData.assets
ActionLegs(actionTypeP, inputAmt, preview, tokenType) ==
    IF inputAmt = NONE \/ preview = {} THEN NoLegs
    ELSE LET d == CHOOSE x \in preview : TRUE
         IN CASE actionTypeP = "deposit" ->
                   LET l == Provide(NoLegs, inputAmt, tokenType)
                   IN IF d.first # 0 THEN Receive(l, d.first, "shares") ELSE l
              [] actionTypeP = "mint" ->
                   LET l == IF d.first # 0 THEN Provide(NoLegs, d.first, tokenType)
                            ELSE NoLegs
                   IN Receive(l, inputAmt, "shares")
              [] actionTypeP = "withdraw" ->
                   LET l == IF d.first # 0 THEN Provide(NoLegs, d.first, "shares")
                            ELSE NoLegs
                   IN Receive(l, inputAmt, tokenType)
              [] OTHER ->
                   LET l == Provide(NoLegs, inputAmt, "shares")
                   IN IF d.first # 0 THEN Receive(l, d.first, tokenType) ELSE l

\* the legs of useFlashLoanPreview; first is previewData.amount
FlashLegs(helperTypeP, shares, preview) ==
    IF preview = {} \/ shares = NONE \/ shares <= 0 THEN NoLegs
    ELSE LET d == CHOOSE x \in preview : TRUE
         IN IF helperTypeP = "mint"
            THEN Receive(Provide(NoLegs, d.first, "collateral"), shares, "shares")
            ELSE Receive(Provide(NoLegs, shares, "shares"), d.first, "borrow")

getReceiveAndProvide(f, kind, inputAmt, preview) ==
    CASE f = "LowLevelRebalanceHandler" -> RebalanceLegs(kind, inputAmt, preview)
      [] f = "useActionPreview" -> ActionLegs(kind, inputAmt, preview, "collateral")
      [] OTHER -> FlashLegs(kind, inputAmt, preview)

PreviewFields(first, second) == [first |-> first, second |-> second]

\* the amounts a form can hold and the previews its read can return: signed
\* for a rebalance, unsigned elsewhere; the flash-loan hook stores its
\* amount reduced by the precision buffer
LegAmounts(f) ==
    IF f = "LowLevelRebalanceHandler" THEN Deltas \cup {NONE} ELSE Amounts \cup {NONE}

LegPreviews(f) ==
    CASE f = "LowLevelRebalanceHandler" ->
            {{}} \cup {{PreviewFields(a, b)} : a \in Deltas, b \in Deltas}
      [] f = "useActionPreview" ->
            {{}} \cup {{PreviewFields(a, 0)} : a \in Amounts}
      [] OTHER ->
            {{}} \cup {{PreviewFields(reduceByPrecisionBuffer(a), 0)} : a \in Amounts}

LegsInit ==
    /\ lgForm \in LegForms
    /\ lgKind \in LegKinds(lgForm)
    /\ lgAmount = NONE
    /\ lgPreview = {}
    /\ lgLegs = getReceiveAndProvide(lgForm, lgKind, NONE, {})

LegsParked == LegsInit /\ lgForm = "useActionPreview" /\ lgKind = "deposit"

LegsFrame == <<EarlierVars, outcomeVars, wrapVars, txVars, minVars, finalVars, lgForm, lgKind>>

\* a render with a new input or a new previewData
lgRender ==
    /\ \E v \in LegAmounts(lgForm), pv \in LegPreviews(lgForm) :
          /\ <<v, pv>> # <<lgAmount, lgPreview>>
          /\ lgAmount' = v
          /\ lgPreview' = pv
          /\ lgLegs' = getReceiveAndProvide(lgForm, lgKind, v, pv)
    /\ UNCHANGED LegsFrame

\* the form is mounted again
lgRemount ==
    /\ lgAmount # NONE \/ lgPreview # {}
    /\ lgAmount' = NONE
    /\ lgPreview' = {}
    /\ lgLegs' = getReceiveAndProvide(lgForm, lgKind, NONE, {})
    /\ UNCHANGED LegsFrame

LegsNext == lgRender \/ lgRemount

HasLeg(side, v, tokenType) ==
    \E i \in 1..Len(side) : side[i] = Leg(v, tokenType)

TheDeltas == CHOOSE x \in lgPreview : TRUE

\* C23: in a rebalance-by-shares preview a positive collateral delta is a
\* 'provide collateral' leg and a negative one 'receive collateral', while
\* a positive borrow delta is a 'receive borrow' leg and a negative one a
\* 'provide borrow' leg.
C23_SharesRebalanceSigns ==
    lgForm = "LowLevelRebalanceHandler" /\ lgKind = "shares" /\ lgPreview # {} =>
        /\ TheDeltas.first > 0 =>
              /\ HasLeg(lgLegs.provide, TheDeltas.first, "collateral")
              /\ \A i \in 1..Len(lgLegs.receive) : lgLegs.receive[i].tokenType # "collateral"
        /\ TheDeltas.first < 0 =>
              /\ HasLeg(lgLegs.receive, 0 - TheDeltas.first, "collateral")
              /\ \A i \in 1..Len(lgLegs.provide) : lgLegs.provide[i].tokenType # "collateral"
        /\ TheDeltas.second > 0 =>
              /\ HasLeg(lgLegs.receive, TheDeltas.second, "borrow")
              /\ \A i \in 1..Len(lgLegs.provide) : lgLegs.provide[i].tokenType # "borrow"
        /\ TheDeltas.second < 0 =>
              /\ HasLeg(lgLegs.provide, 0 - TheDeltas.second, "borrow")
              /\ \A i \in 1..Len(lgLegs.receive) : lgLegs.receive[i].tokenType # "borrow"

C23_Witness ==
    /\ lgForm = "LowLevelRebalanceHandler"
    /\ lgKind = "shares"
    /\ lgAmount = 1
    /\ lgPreview = {PreviewFields(2, 1)}
    /\ lgLegs.provide = <<Leg(2, "collateral")>>
    /\ lgLegs.receive = <<Leg(1, "shares"), Leg(1, "borrow")>>

\* C24: no preview decomposition produces a provide or receive leg whose
\* amount is zero: a zero-valued delta contributes no leg.
C24_NoZeroLeg ==
    /\ \A i \in 1..Len(lgLegs.provide) : lgLegs.provide[i].amount # 0
    /\ \A i \in 1..Len(lgLegs.receive) : lgLegs.receive[i].amount # 0

\* =====================================================================
\* Component: the ETH wrap of FlashLoanHelperHandler
\* (determineRequiredWrapAmount, handleSubmit)
\* =====================================================================
MINT_SLIPPAGE_DIVIDEND == 1000001

MINT_SLIPPAGE_DIVIDER == 1000000

applyMintSlippage(v) == MulDiv(v, MINT_SLIPPAGE_DIVIDEND, MINT_SLIPPAGE_DIVIDER)

\* balances and preview amounts: a few wei, and amounts large enough for
\* the slippage factor to change them
WrapAmounts == (0..MaxAmount) \cup {k * MINT_SLIPPAGE_DIVIDER : k \in 1..MaxAmount}

\* the ETH that wraps into the collateral still missing
EthForShortfall(required, balance) == (required - balance) * wrEthPerToken

\* utils calculateEthWrapForFlashLoan: whether the collateral balance falls
\* short of the preview amount while the ETH above the gas reserve covers
\* the difference, and the ETH that wraps into exactly that difference
calculateEthWrapForFlashLoan(required, balance, eth) ==
    IF balance < required /\ EthForShortfall(required, balance) <= eth - GAS_RESERVE_WEI
    THEN [shouldWrap |-> TRUE, ethToWrapValue |-> EthForShortfall(required, balance)]
    ELSE [shouldWrap |-> FALSE, ethToWrapValue |-> NONE]

\* what determineRequiredWrapAmount leaves in ethToWrapValue
EthToWrapAfter(preview, balance, eth) ==
    IF preview = NONE THEN ethToWrapValue
    ELSE LET result == calculateEthWrapForFlashLoan(preview, balance, eth)
         IN IF result.shouldWrap THEN applyMintSlippage(result.ethToWrapValue)
            ELSE NONE

MaxWraps == 2

WrapInit ==
    /\ wrCollateralBalance \in WrapAmounts
    /\ wrEthBalance \in WrapAmounts
    /\ wrEthPerToken \in 1..2
    /\ wrPreviewAmount = NONE
    /\ ethToWrapValue = NONE
    /\ wrWraps = <<>>

WrapParked ==
    /\ WrapInit
    /\ wrCollateralBalance = 0
    /\ wrEthBalance = 0
    /\ wrEthPerToken = 1

WrapFrame == <<EarlierVars, outcomeVars, legVars, txVars, minVars, finalVars, wrEthPerToken>>

\* previewData changes and the effect runs determineRequiredWrapAmount
wrPreviewChanges ==
    /\ \E pv \in (WrapAmounts \ {0}) \ {wrPreviewAmount} :
          /\ wrPreviewAmount' = pv
          /\ ethToWrapValue' = EthToWrapAfter(pv, wrCollateralBalance, wrEthBalance)
    /\ UNCHANGED <<WrapFrame, wrCollateralBalance, wrEthBalance, wrWraps>>

\* handleSubmit with a wrap to make: wrapEthToWstEth(ethAmount), then
\* refreshBalances and the effect on the new balances
wrHandleSubmitWraps ==
    /\ Len(wrWraps) < MaxWraps
    /\ ethToWrapValue # NONE
    /\ ethToWrapValue <= wrEthBalance
    /\ \E wrapResult \in BOOLEAN :
          IF wrapResult
          THEN /\ wrWraps' = Append(wrWraps,
                      [ethAmount |-> ethToWrapValue,
                       required |-> wrPreviewAmount,
                       balance |-> wrCollateralBalance])
               /\ wrEthBalance' = wrEthBalance - ethToWrapValue
               /\ wrCollateralBalance' =
                      wrCollateralBalance + ethToWrapValue \div wrEthPerToken
               /\ ethToWrapValue' = NONE
          ELSE UNCHANGED <<wrWraps, wrEthBalance, wrCollateralBalance, ethToWrapValue>>
    /\ UNCHANGED <<WrapFrame, wrPreviewAmount>>

\* handleSubmit without a wrap: flashLoan.execute() alone
wrHandleSubmitNoWrap ==
    /\ ethToWrapValue = NONE
    /\ wrPreviewAmount # NONE
    /\ wrPreviewAmount' = NONE
    /\ UNCHANGED <<WrapFrame, wrCollateralBalance, wrEthBalance, ethToWrapValue, wrWraps>>

WrapNext ==
    \/ wrPreviewChanges
    \/ wrHandleSubmitWraps
    \/ wrHandleSubmitNoWrap

\* C25: when the wrapped-token balance is below the amount required, the
\* native currency wrapped is exactly required minus balance, never more,
\* and nothing is wrapped when the balance already suffices.
C25_WrapsExactShortfall ==
    \A i \in 1..Len(wrWraps) :
        /\ wrWraps[i].balance < wrWraps[i].required
        /\ wrWraps[i].ethAmount =
              EthForShortfall(wrWraps[i].required, wrWraps[i].balance)

\* =====================================================================
\* Component: RedeemCollateral.handleRedeem and AuctionHandler.handleSubmit
\* =====================================================================
TxForms == {"RedeemCollateral", "AuctionHandler"}

TxMethods(f) ==
    IF f = "RedeemCollateral" THEN {"redeemCollateral"}
    ELSE {"executeAuctionCollateral", "executeAuctionBorrow"}

\* the argument of the vault call: executeAuctionBorrow takes -amount
TxArg(method, v) == IF method = "executeAuctionBorrow" THEN 0 - v ELSE v

GasEstimates == 1..2

\* the fixed multiplier of applyGasSlippage
GasSlippageFactor == 2

\* utils applyGasSlippage(estimate)
applyGasSlippage(estimate) == estimate * GasSlippageFactor

\* the gas limit the form passes with its vault call: RedeemCollateral
\* passes no overrides
GasLimitOf(f, estimate) ==
    IF f = "RedeemCollateral" THEN NONE ELSE applyGasSlippage(estimate)

Call(kind, method, arg, gas) ==
    [kind |-> kind, method |-> method, arg |-> arg, gas |-> gas]

MaxAttempts == 2

TxInit ==
    /\ txForm \in TxForms
    /\ txMethod \in TxMethods(txForm)
    /\ txInput = NONE
    /\ txMax \in Amounts
    /\ txLoading = FALSE
    /\ txError = "null"
    /\ txApprovalError = "null"
    /\ txSuccess = "null"
    /\ txPc = "idle"
    /\ txEstimate = NONE
    /\ txCalls = <<>>
    /\ txAttempts = 0

TxParked == TxInit /\ txForm = "RedeemCollateral" /\ txMax = 0

TxFrame == <<EarlierVars, outcomeVars, legVars, wrapVars, minVars, finalVars, txForm, txMethod, txMax>>

\* the catch and finally blocks of the handler
TxFails(message) ==
    /\ txError' = message
    /\ txLoading' = FALSE
    /\ txPc' = "idle"

TxFailure(f) ==
    IF f = "RedeemCollateral" THEN "Failed to redeem" ELSE "Failed to execute auction."

\* the user edits the amount
txSetAmount ==
    /\ txPc = "idle"
    /\ \E v \in (Amounts \cup {NONE}) \ {txInput} : txInput' = v
    /\ UNCHANGED <<TxFrame, txLoading, txError, txApprovalError, txSuccess, txPc,
                   txEstimate, txCalls, txAttempts>>

\* handleRedeem up to its first await: parseUnits('') throws
handleRedeem ==
    /\ txForm = "RedeemCollateral"
    /\ txPc = "idle"
    /\ txAttempts < MaxAttempts
    /\ txAttempts' = txAttempts + 1
    /\ txCalls' = <<>>
    /\ txEstimate' = NONE
    /\ txSuccess' = "null"
    /\ IF txInput = NONE
       THEN TxFails("Failed to redeem")
       ELSE IF txMax < txInput
       THEN TxFails("Amount higher than available.")
       ELSE txError' = "null" /\ txLoading' = TRUE /\ txPc' = "send"
    /\ UNCHANGED <<TxFrame, txInput, txApprovalError>>

\* AuctionHandler.handleSubmit up to checkAndApproveRequiredAssets
auctionHandleSubmit ==
    /\ txForm = "AuctionHandler"
    /\ txPc = "idle"
    /\ txAttempts < MaxAttempts
    /\ txInput # NONE /\ txInput # 0
    /\ txAttempts' = txAttempts + 1
    /\ txCalls' = <<>>
    /\ txEstimate' = NONE
    /\ txLoading' = TRUE
    /\ txError' = "null"
    /\ txSuccess' = "null"
    /\ txApprovalError' = "null"
    /\ txPc' = "approve"
    /\ UNCHANGED <<TxFrame, txInput>>

\* checkAndApproveRequiredAssets: it catches its own failure and
\* handleSubmit goes on
auctionApprove ==
    /\ txPc = "approve"
    /\ \E outcome \in {"approved", "already", "failed"} :
          CASE outcome = "approved" ->
                 /\ txCalls' = Append(txCalls, Call("approve", "approve", txInput, NONE))
                 /\ txSuccess' = "Successfully approved."
                 /\ UNCHANGED txApprovalError
            [] outcome = "already" ->
                 /\ txSuccess' = "Already approved."
                 /\ UNCHANGED <<txCalls, txApprovalError>>
            [] OTHER ->
                 /\ txApprovalError' = "Failed to approve required tokens."
                 /\ UNCHANGED <<txCalls, txSuccess>>
    /\ txPc' = "estimateGas"
    /\ UNCHANGED <<TxFrame, txInput, txLoading, txError, txEstimate, txAttempts>>

\* await vaultLens.<method>.estimateGas(arg)
txEstimateGas ==
    /\ txPc = "estimateGas"
    /\ \/ \E g \in GasEstimates :
             /\ txEstimate' = g
             /\ txCalls' = Append(txCalls,
                    Call("estimateGas", txMethod, TxArg(txMethod, txInput), g))
             /\ txPc' = "send"
             /\ UNCHANGED <<txLoading, txError>>
       \/ /\ TxFails(TxFailure(txForm))
          /\ UNCHANGED <<txEstimate, txCalls>>
    /\ UNCHANGED <<TxFrame, txInput, txApprovalError, txSuccess, txAttempts>>

\* await vault.<method>(arg, overrides): the wallet signs or the user declines
txSend ==
    /\ txPc = "send"
    /\ \/ /\ txCalls' = Append(txCalls,
                    Call("send", txMethod, TxArg(txMethod, txInput),
                         GasLimitOf(txForm, txEstimate)))
          /\ txPc' = "wait"
          /\ UNCHANGED <<txLoading, txError>>
       \/ /\ TxFails("Transaction canceled by user.")
          /\ UNCHANGED txCalls
    /\ UNCHANGED <<TxFrame, txInput, txApprovalError, txSuccess, txEstimate, txAttempts>>

\* await tx.wait(); RedeemCollateral ends its attempt here
txWait ==
    /\ txPc = "wait"
    /\ \/ /\ txCalls' = Append(txCalls, Call("confirmed", txMethod, NONE, NONE))
          /\ IF txForm = "RedeemCollateral"
             THEN /\ txInput' = NONE
                  /\ txSuccess' = "Redemption successful!"
                  /\ txLoading' = FALSE
                  /\ txPc' = "idle"
             ELSE /\ txPc' = "refresh"
                  /\ UNCHANGED <<txInput, txSuccess, txLoading>>
          /\ UNCHANGED txError
       \/ /\ TxFails(TxFailure(txForm))
          /\ UNCHANGED <<txCalls, txInput, txSuccess>>
    /\ UNCHANGED <<TxFrame, txApprovalError, txEstimate, txAttempts>>

\* await Promise.all([refreshBalances(), refreshVaultLimits()]) and what
\* follows it in AuctionHandler.handleSubmit
auctionRefresh ==
    /\ txPc = "refresh"
    /\ txCalls' = txCalls \o <<Call("refreshBalances", "null", NONE, NONE),
                               Call("refreshVaultLimits", "null", NONE, NONE)>>
    /\ \/ /\ txInput' = NONE
          /\ txSuccess' = "Auction executed successfully!"
          /\ txLoading' = FALSE
          /\ txPc' = "idle"
          /\ UNCHANGED txError
       \/ /\ TxFails(TxFailure(txForm))
          /\ UNCHANGED <<txInput, txSuccess>>
    /\ UNCHANGED <<TxFrame, txApprovalError, txEstimate, txAttempts>>

TxNext ==
    \/ txSetAmount
    \/ handleRedeem
    \/ auctionHandleSubmit
    \/ auctionApprove
    \/ txEstimateGas
    \/ txSend
    \/ txWait
    \/ auctionRefresh

\* the call at position i is a vault transaction preceded, in the same
\* attempt, by an estimate for the same method and argument whose result,
\* padded by applyGasSlippage, is its gas limit
EstimatedBefore(i) ==
    \E j \in 1..(i - 1) :
        /\ txCalls[j].kind = "estimateGas"
        /\ txCalls[j].method = txCalls[i].method
        /\ txCalls[j].arg = txCalls[i].arg
        /\ txCalls[i].gas = applyGasSlippage(txCalls[j].gas)

\* C26: every state-changing vault transaction is submitted with a gas
\* limit equal to applyGasSlippage(estimate) for an estimate obtained for
\* the same method and arguments earlier in the same attempt; none is
\* submitted without a preceding estimate.
C26_GasLimitFromEstimate ==
    \A i \in 1..Len(txCalls) : txCalls[i].kind = "send" => EstimatedBefore(i)

RefreshedAfter(i) ==
    /\ \E j \in (i + 1)..Len(txCalls) : txCalls[j].kind = "refreshBalances"
    /\ \E j \in (i + 1)..Len(txCalls) : txCalls[j].kind = "refreshVaultLimits"

\* C27: every confirmed transaction is followed by a refresh of both the
\* user's balances and the vault limits: when the handler has returned, a
\* confirmation in its attempt is followed by both refresh calls.
C27_ConfirmedThenRefreshed ==
    txPc = "idle" =>
        \A i \in 1..Len(txCalls) : txCalls[i].kind = "confirmed" => RefreshedAfter(i)

\* =====================================================================
\* Component: loadMinAvailable of FlashLoanHelperHandler
\* =====================================================================
\* imbalances the zero-amount rebalance preview reports, of either sign
MinDeltas == {k * 10 ^ e : k \in (0 - MaxAmount)..MaxAmount, e \in {0, 2, 4}}

\* the vault's variable debt in shares
DebtShares == {0, 5 * 10 ^ 6, 10 ^ 9}

maxBigInt(a, b) == IF a > b THEN a ELSE b

\* variableDebtTokenShares * 2n / 10_000_000n
amountWithPrecision(variableDebtTokenShares) ==
    MulDiv(variableDebtTokenShares, 2, 10 ^ 7)

\* maxBigInt(deltaShares * 101n / 100n, deltaShares + 5n * amountWithPrecision)
rawMinMint(deltaShares, variableDebtTokenShares) ==
    maxBigInt(MulDiv(deltaShares, 101, 100),
              deltaShares + 5 * amountWithPrecision(variableDebtTokenShares))

\* absDelta * 10001n / 10000n
rawMinRedeem(deltaShares) == MulDiv(Abs(deltaShares), 10001, 10000)

MinRead(deltaShares, debtShares) == [deltaShares |-> deltaShares, debtShares |-> debtShares]

MinInit ==
    /\ mnDeltaShares \in MinDeltas
    /\ mnDebtShares \in DebtShares
    /\ minMint = EMPTY
    /\ minRedeem = EMPTY
    /\ mnRead = {}

MinParked == MinInit /\ mnDeltaShares = 0 /\ mnDebtShares = 0

MinFrame == <<EarlierVars, outcomeVars, legVars, wrapVars, txVars, finalVars>>

\* the vault's position moves between two polls
mnChainMoves ==
    /\ \E d \in MinDeltas, s \in DebtShares :
          /\ <<d, s>> # <<mnDeltaShares, mnDebtShares>>
          /\ mnDeltaShares' = d
          /\ mnDebtShares' = s
    /\ UNCHANGED <<MinFrame, minMint, minRedeem, mnRead>>

\* loadMinAvailable, its reads taken together
loadMinAvailable ==
    /\ mnRead' = {MinRead(mnDeltaShares, mnDebtShares)}
    /\ IF mnDeltaShares > 0
       THEN /\ minRedeem' = formatUnits(0)
            /\ minMint' = formatUnits(rawMinMint(mnDeltaShares, mnDebtShares))
       ELSE IF mnDeltaShares < 0
       THEN /\ minMint' = formatUnits(0)
            /\ minRedeem' = formatUnits(rawMinRedeem(mnDeltaShares))
       ELSE /\ minMint' = formatUnits(0)
            /\ minRedeem' = formatUnits(0)
    /\ UNCHANGED <<MinFrame, mnDeltaShares, mnDebtShares>>

MinNext == mnChainMoves \/ loadMinAvailable

\* max(imbalance * 1.01, imbalance + 5 * debt-precision correction)
SafeMinimum(imbalance, debtShares) ==
    maxBigInt(MulDiv(imbalance, 101, 100), imbalance + 5 * amountWithPrecision(debtShares))

\* C29: the minimum safe mint amount and the minimum safe redeem amount,
\* derived from the zero-amount rebalance preview, each equal
\* max(imbalance * 1.01, imbalance + 5 * debt-precision correction) for the
\* imbalance read, and are never below that imbalance.
C29_MinimumIsPaddedImbalance ==
    \A r \in mnRead :
        /\ r.deltaShares > 0 =>
              /\ parseUnits(minMint) = SafeMinimum(r.deltaShares, r.debtShares)
              /\ parseUnits(minMint) >= r.deltaShares
        /\ r.deltaShares < 0 =>
              /\ parseUnits(minRedeem) = SafeMinimum(Abs(r.deltaShares), r.debtShares)
              /\ parseUnits(minRedeem) >= Abs(r.deltaShares)

\* =====================================================================
\* Component: terms of use (AppContextProvider)
\* =====================================================================
\* the components before the providers'
BeforeFinalVars == <<EarlierVars, outcomeVars, legVars, wrapVars, txVars, minVars>>

\* mutant: the UI is blocked only once the terms are known to be unsigned
TermsBlockingWhenUnsigned(isConnected, signed) == isConnected /\ signed = "false"

\* the effect that computes isTermsBlockingUI: every branch but the first
\* two sets true
TermsBlocking(isConnected, signed) ==
    IF ~isConnected THEN FALSE
    ELSE IF signed = "true" THEN FALSE
    ELSE TRUE

\* the condition of the auto-sign effect; the signer is present whenever a
\* wallet is connected
AutoSigns(addr, signed, checking, signing, attempted) ==
    /\ addr # "null"
    /\ signed = "false"
    /\ termsTextLoaded
    /\ ~signing
    /\ ~checking
    /\ ~attempted

\* the effects that follow a change of the terms state: the auto-sign effect
\* (which calls signTermsOfUse) and the blocking effect
TermsEffects(addr, signed, checking, signing, attempted, signs) ==
    /\ IF AutoSigns(addr, signed, checking, signing, attempted)
       THEN /\ hasAttemptedAutoSign' = TRUE
            /\ isSigningTerms' = TRUE
            /\ termsSigns' = signs \cup {addr}
       ELSE /\ hasAttemptedAutoSign' = attempted
            /\ isSigningTerms' = signing
            /\ termsSigns' = signs
    /\ isTermsBlockingUI' = TermsBlocking(addr # "null", signed)

TermsInit ==
    /\ termsAddress = "null"
    /\ termsTextLoaded \in BOOLEAN
    /\ isTermsSigned = "null"
    /\ isCheckingTerms = FALSE
    /\ isSigningTerms = FALSE
    /\ hasAttemptedAutoSign = FALSE
    /\ termsCheckingError = FALSE
    /\ termsSigningError = FALSE
    /\ isTermsBlockingUI = FALSE
    /\ termsChecks = {}
    /\ termsSigns = {}
    /\ termsAccepted \in SUBSET Addresses

TermsParked == TermsInit /\ termsTextLoaded /\ termsAccepted = {}

TermsFrame == <<BeforeFinalVars, NotTermsVars, termsTextLoaded>>

\* a wallet connects or the account changes: setAddress, then the effect
\* that resets isTermsSigned and calls checkTermsStatus
termsAddressChanges ==
    /\ \E a \in Addresses \ {termsAddress} :
          /\ termsAddress' = a
          /\ termsChecks' = termsChecks \cup {a}
          /\ TermsEffects(a, "null", TRUE, isSigningTerms, FALSE, termsSigns)
    /\ isTermsSigned' = "null"
    /\ isCheckingTerms' = TRUE
    /\ UNCHANGED <<TermsFrame, termsCheckingError, termsSigningError, termsAccepted>>

\* disconnectWallet and the effects of isConnected = false
termsDisconnect ==
    /\ termsAddress # "null"
    /\ termsAddress' = "null"
    /\ isTermsSigned' = "null"
    /\ termsCheckingError' = FALSE
    /\ termsSigningError' = FALSE
    /\ TermsEffects("null", "null", isCheckingTerms, isSigningTerms, FALSE, termsSigns)
    /\ UNCHANGED <<TermsFrame, isCheckingTerms, termsChecks, termsAccepted>>

\* `await checkTermsOfUseStatus(address, currentNetwork)` of one call of
\* checkTermsStatus settles: a status, or null or a rejection
checkTermsStatus ==
    \E a \in termsChecks, answered \in BOOLEAN :
        LET signed == IF answered /\ a \in termsAccepted THEN "true" ELSE "false"
        IN /\ termsChecks' = termsChecks \ {a}
           /\ isTermsSigned' = signed
           /\ termsCheckingError' = IF answered THEN termsCheckingError ELSE TRUE
           /\ isCheckingTerms' = FALSE
           /\ TermsEffects(termsAddress, signed, FALSE, isSigningTerms,
                           hasAttemptedAutoSign, termsSigns)
           /\ UNCHANGED <<TermsFrame, termsAddress, termsSigningError, termsAccepted>>

\* signTermsOfUse settles: the signature was submitted and accepted, or the
\* user declined, or the submission failed
signTermsOfUse ==
    \E a \in termsSigns, accepted \in BOOLEAN :
        LET signed == IF accepted THEN "true" ELSE isTermsSigned
        IN /\ termsAccepted' = IF accepted THEN termsAccepted \cup {a} ELSE termsAccepted
           /\ isTermsSigned' = signed
           /\ termsSigningError' = IF accepted THEN termsSigningError ELSE TRUE
           /\ TermsEffects(termsAddress, signed, isCheckingTerms, FALSE,
                           hasAttemptedAutoSign, termsSigns \ {a})
           /\ UNCHANGED <<TermsFrame, termsAddress, isCheckingTerms, termsChecks,
                          termsCheckingError>>

TermsNext ==
    \/ termsAddressChanges
    \/ termsDisconnect
    \/ checkTermsStatus
    \/ signTermsOfUse

C37_SignedMeansCurrentAddressAccepted ==
    termsAddress # "null" =>
        /\ isTermsSigned = "true" => termsAddress \in termsAccepted
        /\ ~isTermsBlockingUI => termsAddress \in termsAccepted

\* =====================================================================
\* Component: whitelist activation (VaultContextProvider)
\* =====================================================================
MaxActivations == 3

WhitelistInit ==
    /\ hasSignature \in BOOLEAN
    /\ signatureUsed \in BOOLEAN
    /\ isActivatingWhitelist = FALSE
    /\ whitelistError = "null"
    /\ isWhitelisted \in {"null", "false"}
    /\ activations = <<>>
    /\ whitelistTxs = <<>>

WhitelistParked ==
    /\ WhitelistInit
    /\ ~hasSignature
    /\ ~signatureUsed
    /\ isWhitelisted = "null"

WhitelistFrame == <<BeforeFinalVars, NotWhitelistVars, hasSignature>>

\* the catch block of activateWhitelist, for a failure that is not a
\* rejection by the user
WhitelistFailure(reverted) ==
    IF reverted THEN "This address has already used its whitelist signature"
    ELSE "Failed to activate whitelist. Please try again."

\* the call leaves activateWhitelist through a return or the catch: finally
EndActivation(i, err) ==
    /\ activations' = [activations EXCEPT ![i] = "done"]
    /\ isActivatingWhitelist' = FALSE
    /\ whitelistError' = err

\* activateWhitelist up to its first await; the vault, the signer and the
\* address are present and the whitelist is activated
activateWhitelist ==
    /\ hasSignature
    /\ Len(activations) < MaxActivations
    /\ activations' = Append(activations, "whitelistRegistry")
    /\ isActivatingWhitelist' = TRUE
    /\ whitelistError' = "null"
    /\ UNCHANGED <<WhitelistFrame, signatureUsed, isWhitelisted, whitelistTxs>>

\* `await vaultLens.whitelistRegistry()` settles
activationRegistryRead ==
    \E i \in 1..Len(activations), answer \in {"registry", "ZeroAddress", "rejects"} :
        /\ activations[i] = "whitelistRegistry"
        /\ IF answer = "registry"
           THEN /\ activations' = [activations EXCEPT ![i] = "send"]
                /\ UNCHANGED <<isActivatingWhitelist, whitelistError>>
           ELSE EndActivation(i, IF answer = "ZeroAddress"
                                 THEN "Whitelist registry not found"
                                 ELSE WhitelistFailure(FALSE))
        /\ UNCHANGED <<WhitelistFrame, signatureUsed, isWhitelisted, whitelistTxs>>

\* `await whitelistRegistry.addAddressToWhitelistBySignature(address, v, r, s)`
\* settles: the call reverts in its gas estimate once the registry has
\* consumed the signature; otherwise the user signs or declines
activationSend ==
    \E i \in 1..Len(activations), signs \in BOOLEAN :
        /\ activations[i] = "send"
        /\ IF signatureUsed
           THEN /\ EndActivation(i, WhitelistFailure(TRUE))
                /\ UNCHANGED whitelistTxs
           ELSE IF signs
           THEN /\ activations' = [activations EXCEPT ![i] = "wait"]
                /\ whitelistTxs' = Append(whitelistTxs, i)
                /\ UNCHANGED <<isActivatingWhitelist, whitelistError>>
           ELSE /\ EndActivation(i, "Transaction rejected by user")
                /\ UNCHANGED whitelistTxs
        /\ UNCHANGED <<WhitelistFrame, signatureUsed, isWhitelisted>>

\* `await tx.wait()` settles: the transaction is mined, and reverts when
\* the signature was consumed before it
activationWait ==
    \E i \in 1..Len(activations) :
        /\ activations[i] = "wait"
        /\ IF signatureUsed
           THEN /\ EndActivation(i, WhitelistFailure(TRUE))
                /\ UNCHANGED signatureUsed
           ELSE /\ activations' = [activations EXCEPT ![i] = "checkWhitelistStatus"]
                /\ signatureUsed' = TRUE
                /\ UNCHANGED <<isActivatingWhitelist, whitelistError>>
        /\ UNCHANGED <<WhitelistFrame, isWhitelisted, whitelistTxs>>

\* `await checkWhitelistStatus()` settles (it catches its own failures)
activationCheck ==
    \E i \in 1..Len(activations), read \in BOOLEAN :
        /\ activations[i] = "checkWhitelistStatus"
        /\ isWhitelisted' = IF read THEN "true" ELSE "null"
        /\ EndActivation(i, whitelistError)
        /\ UNCHANGED <<WhitelistFrame, signatureUsed, whitelistTxs>>

WhitelistNext ==
    \/ activateWhitelist
    \/ activationRegistryRead
    \/ activationSend
    \/ activationWait
    \/ activationCheck

\* C32: the whitelist signature of a (vault, user) pair is consumed exactly
\* once: no second whitelist-activation transaction carrying the same
\* signature is ever submitted, including when activation is requested
\* again while one is in flight or after one has succeeded.
C32_SignatureSubmittedOnce == Len(whitelistTxs) <= 1

\* =====================================================================
\* Component: the auction form (AuctionHandler)
\* =====================================================================
FutureAssets == (0 - 2)..2

\* auctionType: provide_collateral when futureBorrowAssets > 0
AuctionType(futureBorrow) ==
    IF futureBorrow > 0 THEN "provide_collateral" ELSE "provide_borrow"

\* vaultNeeds of loadMaxValue
VaultNeeds(futureBorrow, futureCollateral) ==
    IF AuctionType(futureBorrow) = "provide_borrow"
    THEN (IF futureBorrow < 0 THEN 0 - futureBorrow ELSE 0)
    ELSE (IF futureCollateral > 0 THEN futureCollateral ELSE 0)

\* min(balance, the vault's pending need on the provided side)
AuctionMax(futureBorrow, futureCollateral, balance) ==
    Min(balance, VaultNeeds(futureBorrow, futureCollateral))

\* what the effect leaves in maxValue: setMaxValue(null), then loadMaxValue,
\* which returns at once when a future amount is falsy (undefined or 0n)
LoadedAuctionMax(futureBorrow, futureCollateral, balance) ==
    IF futureBorrow = 0 \/ futureCollateral = 0 THEN NONE
    ELSE AuctionMax(futureBorrow, futureCollateral, balance)

\* `disabled` of the submit button, loading and isApproving being false
AuctionSubmitDisabled(amt, max) ==
    amt = NONE \/ (amt # NONE /\ max # NONE /\ amt > max)

AuctionInit ==
    /\ futureBorrowAssets \in FutureAssets
    /\ futureCollateralAssets \in FutureAssets
    /\ aucBalance \in Amounts
    /\ aucMaxValue = LoadedAuctionMax(futureBorrowAssets, futureCollateralAssets, aucBalance)
    /\ aucAmount = NONE
    /\ aucSubmitted = {}

AuctionParked ==
    /\ AuctionInit
    /\ futureBorrowAssets = 0
    /\ futureCollateralAssets = 0
    /\ aucBalance = 0

AuctionFrame == <<BeforeFinalVars, NotAuctionVars, futureBorrowAssets, futureCollateralAssets>>

\* the balance of the provided token changes: the effect clears the input
\* and loads the max again
aucBalanceChanges ==
    /\ \E b \in Amounts \ {aucBalance} :
          /\ aucBalance' = b
          /\ aucMaxValue' = LoadedAuctionMax(futureBorrowAssets, futureCollateralAssets, b)
    /\ aucAmount' = NONE
    /\ UNCHANGED <<AuctionFrame, aucSubmitted>>

\* handleInputChange: processInput gives null or a non-negative bigint
aucHandleInputChange ==
    /\ \E parsedValue \in Amounts \cup {NONE} :
          /\ parsedValue # aucAmount
          /\ aucAmount' = parsedValue
    /\ UNCHANGED <<AuctionFrame, aucBalance, aucMaxValue, aucSubmitted>>

\* handleMaxClick behind `disabled={loading || !maxValue}`
aucHandleMaxClick ==
    /\ aucMaxValue # NONE /\ aucMaxValue # 0
    /\ aucAmount' = aucMaxValue
    /\ UNCHANGED <<AuctionFrame, aucBalance, aucMaxValue, aucSubmitted>>

\* handleSubmit through the enabled button, past `if (... || !amount) return`
aucHandleSubmit ==
    /\ ~AuctionSubmitDisabled(aucAmount, aucMaxValue)
    /\ aucAmount # 0
    /\ aucSubmitted' = aucSubmitted \cup {[amount |-> aucAmount, balance |-> aucBalance]}
    /\ UNCHANGED <<AuctionFrame, aucBalance, aucMaxValue, aucAmount>>

AuctionNext ==
    \/ aucBalanceChanges
    \/ aucHandleInputChange
    \/ aucHandleMaxClick
    \/ aucHandleSubmit

\* C38: the auction form enables submission only when the maximum
\* min(userBalance, the vault's pending need on the provided side) has been
\* computed and the entered amount does not exceed it; in particular, when
\* futureBorrowAssets or futureCollateralAssets is exactly zero, an amount
\* above that maximum cannot be submitted.
C38_SubmissionWithinAuctionMax ==
    /\ (~AuctionSubmitDisabled(aucAmount, aucMaxValue) /\ aucAmount # 0) =>
          aucMaxValue # NONE
    /\ \A a \in aucSubmitted :
          a.amount <= AuctionMax(futureBorrowAssets, futureCollateralAssets, a.balance)

\* =====================================================================
\* Component: calculateMaxValues called again while a call is running
\* =====================================================================
MaxCalculations == 3

\* a call of calculateMaxValues and the inputs its closure holds
Calculation(id, token, limit) == [id |-> id, token |-> token, limit |-> limit]

\* maxAvailableDeposit of a vault whose borrow token is not WETH
MaxDepositOf(token, limit) == MaxValue("deposit", FALSE, 0, token, 0, limit, 0, 0)

CalcInit ==
    /\ calcTokenBalance \in Amounts
    /\ calcVaultMax \in Amounts
    /\ calcRunning = {}
    /\ calcNext = 1
    /\ calcResolved = {}
    /\ calcShownFrom = 0
    /\ maxDepositShown = EMPTY

CalcParked == CalcInit /\ calcTokenBalance = 0 /\ calcVaultMax = 0

CalcFrame == <<BeforeFinalVars, NotCalcVars>>

\* a refresh sets a new balance or a new vault limit and the max-values
\* effect calls calculateMaxValues, which runs up to its first await
calcInputsChange ==
    /\ calcNext <= MaxCalculations
    /\ \E token \in Amounts, limit \in Amounts :
          /\ <<token, limit>> # <<calcTokenBalance, calcVaultMax>>
          /\ calcTokenBalance' = token
          /\ calcVaultMax' = limit
          /\ calcRunning' = calcRunning \cup {Calculation(calcNext, token, limit)}
    /\ calcNext' = calcNext + 1
    /\ UNCHANGED <<CalcFrame, calcResolved, calcShownFrom, maxDepositShown>>

\* the previewDeposit reads of one call have resolved: the eight setters run
calcSettersRun ==
    \E c \in calcRunning :
        /\ calcRunning' = calcRunning \ {c}
        /\ calcResolved' = calcResolved \cup {c.id}
        /\ calcShownFrom' = c.id
        /\ maxDepositShown' = MaxDepositOf(c.token, c.limit)
        /\ UNCHANGED <<CalcFrame, calcTokenBalance, calcVaultMax, calcNext>>

\* a read of one call rejects: the catch logs and sets nothing
calcThrows ==
    \E c \in calcRunning :
        /\ calcRunning' = calcRunning \ {c}
        /\ UNCHANGED <<CalcFrame, calcTokenBalance, calcVaultMax, calcNext, calcResolved,
                       calcShownFrom, maxDepositShown>>

CalcNext == calcInputsChange \/ calcSettersRun \/ calcThrows

\* nothing is running and the call for the latest inputs reached its setters
CalcSettled == calcRunning = {} /\ (calcNext - 1) \in calcResolved

ShowsLatestMax == maxDepositShown = MaxDepositOf(calcTokenBalance, calcVaultMax)

NeverOverwrittenByOlder == calcShownFrom' >= calcShownFrom

\* C40: once all in-flight refreshes and max computations have settled, the
\* displayed available-max values are those computed from the latest
\* balances and vault limits: a max computation started from older inputs
\* never overwrites the result of one started from newer inputs.
C40_LatestMaxWins == [](CalcSettled => ShowsLatestMax) /\ [][NeverOverwrittenByOlder]_vars

\* =====================================================================
\* Component: the max loaders of the flash-loan forms and their failures
\* =====================================================================
\* FlashLoanHelperHandler.setMaxMint, FlashLoanDepositWithdrawHandler
\* .setMaxDeposit and .setMaxWithdraw, each called by an effect as `f();`
Loaders == {"setMaxMint", "setMaxDeposit", "setMaxWithdraw"}

MaxRejections == 2

\* the body of the function is wrapped in try/catch
CatchesOwnFailures(f) == f = "setMaxWithdraw"

\* the awaits of the function, in order
LoaderAwaits(f) ==
    CASE f = "setMaxMint" ->
            <<"convertToSharesCollateral", "convertToShares", "maxLowLevelRebalanceShares">>
      [] f = "setMaxDeposit" ->
            <<"convertToShares", "maxLowLevelRebalanceShares", "convertToAssets">>
      [] OTHER -> <<"previewRedeemSharesWithCurveAndFlashLoanBorrow">>

\* what the reads return
LoaderReads == {0, GAS_RESERVE + 1, GAS_RESERVE + 2}

\* the value handed to setMaxAmount once the last read returned `read`
LoadedMaxAmount(f, shares, read) ==
    CASE f = "setMaxMint" ->
            formatUnits(applyMaxMintSlippage(minBigInt(clampToPositive(shares - GAS_RESERVE),
                                                       read)))
      [] f = "setMaxDeposit" -> formatUnits(read)
      [] OTHER -> formatUnits(read)

LoaderInit ==
    /\ loader \in Loaders
    /\ loaderEthBalance \in Amounts
    /\ loaderAwait = 0
    /\ loaderShares = NONE
    /\ loaderMaxAmount = EMPTY
    /\ loaderErrorLogged = FALSE
    /\ unhandledRejections = 0

LoaderParked == LoaderInit /\ loader = "setMaxMint" /\ loaderEthBalance = 0

LoaderFrame == <<BeforeFinalVars, NotLoaderVars, loader>>

\* a balance the effect depends on changes and the effect calls the loader,
\* which runs up to its first await
loaderEffectRuns ==
    /\ loaderAwait = 0
    /\ unhandledRejections < MaxRejections
    /\ \E b \in Amounts \ {loaderEthBalance} : loaderEthBalance' = b
    /\ loaderAwait' = 1
    /\ loaderShares' = NONE
    /\ loaderErrorLogged' = FALSE
    /\ UNCHANGED <<LoaderFrame, loaderMaxAmount, unhandledRejections>>

\* the read the call is suspended at resolves
loaderReadResolves ==
    /\ loaderAwait > 0
    /\ \E read \in LoaderReads :
          IF loaderAwait < Len(LoaderAwaits(loader))
          THEN /\ loaderAwait' = loaderAwait + 1
               /\ loaderShares' = IF loaderShares = NONE THEN read
                                  ELSE IF loader = "setMaxMint" THEN loaderShares + read
                                  ELSE loaderShares
               /\ UNCHANGED loaderMaxAmount
          ELSE /\ loaderAwait' = 0
               /\ loaderMaxAmount' = LoadedMaxAmount(loader, loaderShares, read)
               /\ UNCHANGED loaderShares
    /\ UNCHANGED <<LoaderFrame, loaderEthBalance, loaderErrorLogged, unhandledRejections>>

\* the read the call is suspended at rejects: the catch of the function
\* sets the fallback, and without one the promise the effect dropped rejects
loaderReadRejects ==
    /\ loaderAwait > 0
    /\ loaderAwait' = 0
    /\ IF CatchesOwnFailures(loader)
       THEN /\ loaderErrorLogged' = TRUE
            /\ loaderMaxAmount' = formatUnits(0)
            /\ UNCHANGED unhandledRejections
       ELSE /\ unhandledRejections' = unhandledRejections + 1
            /\ UNCHANGED <<loaderErrorLogged, loaderMaxAmount>>
    /\ UNCHANGED <<LoaderFrame, loaderEthBalance, loaderShares>>

LoaderNext == loaderEffectRuns \/ loaderReadResolves \/ loaderReadRejects

\* C31: no failure of a contract read, backend fetch or transaction step
\* escapes as an uncaught exception or unhandled rejection: every
\* asynchronous operation catches its own failures and turns them into a
\* classified state.
C31_NoUnhandledRejection == unhandledRejections = 0

\* ---------------------------------------------------------------------
\* Claims about the approval step of the low-level rebalance

\* C36: in low-level rebalance and auction execution, if the approval step
\* fails or is rejected by the user, the main transaction is not submitted
\* in that attempt.
C36_FailedApprovalStopsAttempt ==
    approvalError # "null" => \A i \in 1..Len(rbTxs) : rbTxs[i].type # "rebalance"

\* ---------------------------------------------------------------------
\* Claims about the messages of a form

\* the messages LowLevelRebalanceHandler renders under its button: one
\* ErrorMessage for approvalError, one for error, one SuccessMessage
RbShownMessages ==
    {m \in {<<"error", approvalError>>, <<"error", rbError>>, <<"success", rbSuccess>>} :
        m[2] # "null"}

\* C30: at every moment at most one of the error, warning and success
\* messages is displayed in a form; in particular no success message is
\* displayed while an error message is displayed.
C30_AtMostOneMessage == Cardinality(RbShownMessages) <= 1

\* ---------------------------------------------------------------------
\* Claims about the self-refresh of the flash-loan preview

\* while the input is valid a timer of the current input and selection is
\* due to issue a read within the refresh period; for an input that is not
\* valid no interval is left running
RefreshScheduled ==
    hook \in FlashHooks =>
        IF ValidInput(hook, inputAmount)
        THEN \E t \in timers :
                /\ t.amount = inputAmount
                /\ t.selection = selection
                /\ t.due - elapsed <= REFRESH
        ELSE \A t \in timers : t.kind # "interval"

\* a step that starts and ends with an input that is not valid issues no read
NoReadWhileInvalid ==
    hook \in FlashHooks /\ ~ValidInput(hook, inputAmount)
        /\ ~ValidInput(hook, inputAmount') => reads' = reads

\* C21: while the flash-loan input stays valid and non-zero a new preview
\* read is issued every 6 s, and once the input is invalid or zero no
\* further self-refresh read is issued.
C21_SelfRefreshWhileValid == []RefreshScheduled /\ [][NoReadWhileInvalid]_vars

\* =====================================================================
\* Specifications
\* =====================================================================
\* the form as it is mounted, while another component is examined
SubmitParked ==
    /\ SubmitInit
    /\ handler = "ActionHandler"
    /\ actionType = "deposit"
    /\ ~isWETH
    /\ ~connected
    /\ tokenBalance = 0
    /\ allowance = 0

\* the later components at rest
FinalParked ==
    TermsParked /\ WhitelistParked /\ AuctionParked /\ CalcParked /\ LoaderParked

LateCoreParked == OutcomeParked /\ LegsParked /\ WrapParked /\ TxParked /\ MinParked

LateParked == LateCoreParked /\ FinalParked

AuxParked == MaxParked /\ HelperParked /\ PollerParked /\ LateParked

\* the components before the last ones at rest
EarlierParked ==
    /\ SubmitParked /\ ContextInit /\ PreviewParked /\ RebalanceParked
    /\ MaxParked /\ HelperParked /\ PollerParked

InitSubmit == SubmitInit /\ ContextInit /\ PreviewParked /\ RebalanceParked /\ AuxParked

InitContext == SubmitParked /\ ContextInit /\ PreviewParked /\ RebalanceParked /\ AuxParked

InitPreview == SubmitParked /\ ContextInit /\ PreviewInit /\ RebalanceParked /\ AuxParked

InitFlashPreview ==
    SubmitParked /\ ContextInit /\ FlashPreviewInit /\ RebalanceParked /\ AuxParked

InitMax ==
    /\ SubmitParked /\ ContextInit /\ PreviewParked /\ RebalanceParked
    /\ MaxInit /\ HelperParked /\ PollerParked /\ LateParked

InitHelper ==
    /\ SubmitParked /\ ContextInit /\ PreviewParked /\ RebalanceParked
    /\ MaxParked /\ HelperInit /\ PollerParked /\ LateParked

InitPoller ==
    /\ SubmitParked /\ ContextInit /\ PreviewParked /\ RebalanceParked
    /\ MaxParked /\ HelperParked /\ PollerInit /\ LateParked

InitOutcome ==
    /\ EarlierParked /\ OutcomeInit /\ LegsParked /\ WrapParked /\ TxParked /\ MinParked
    /\ FinalParked

InitLegs ==
    /\ EarlierParked /\ OutcomeParked /\ LegsInit /\ WrapParked /\ TxParked /\ MinParked
    /\ FinalParked

InitWrap ==
    /\ EarlierParked /\ OutcomeParked /\ LegsParked /\ WrapInit /\ TxParked /\ MinParked
    /\ FinalParked

InitTx ==
    /\ EarlierParked /\ OutcomeParked /\ LegsParked /\ WrapParked /\ TxInit /\ MinParked
    /\ FinalParked

InitMin ==
    /\ EarlierParked /\ OutcomeParked /\ LegsParked /\ WrapParked /\ TxParked /\ MinInit
    /\ FinalParked

InitTerms ==
    /\ EarlierParked /\ LateCoreParked
    /\ TermsInit /\ WhitelistParked /\ AuctionParked /\ CalcParked /\ LoaderParked

InitWhitelist ==
    /\ EarlierParked /\ LateCoreParked
    /\ TermsParked /\ WhitelistInit /\ AuctionParked /\ CalcParked /\ LoaderParked

InitAuction ==
    /\ EarlierParked /\ LateCoreParked
    /\ TermsParked /\ WhitelistParked /\ AuctionInit /\ CalcParked /\ LoaderParked

InitCalc ==
    /\ EarlierParked /\ LateCoreParked
    /\ TermsParked /\ WhitelistParked /\ AuctionParked /\ CalcInit /\ LoaderParked

InitLoader ==
    /\ EarlierParked /\ LateCoreParked
    /\ TermsParked /\ WhitelistParked /\ AuctionParked /\ CalcParked /\ LoaderInit

InitRebalance == SubmitParked /\ ContextInit /\ PreviewParked /\ RebalanceInit /\ AuxParked

SpecSubmit == InitSubmit /\ [][SubmitNext]_vars

SpecContext == InitContext /\ [][ContextNext]_vars

SpecPreview == InitPreview /\ [][PreviewNext]_vars

SpecFlashPreview == InitFlashPreview /\ [][PreviewNext]_vars

SpecRebalance == InitRebalance /\ [][RebalanceNext]_vars

SpecMax == InitMax /\ [][MaxNext]_vars

SpecHelper == InitHelper /\ [][HelperNext]_vars

SpecPoller == InitPoller /\ [][PollerNext]_vars

SpecOutcome == InitOutcome /\ [][OutcomeNext]_vars

SpecLegs == InitLegs /\ [][LegsNext]_vars

SpecWrap == InitWrap /\ [][WrapNext]_vars

SpecTx == InitTx /\ [][TxNext]_vars

SpecMin == InitMin /\ [][MinNext]_vars

SpecTerms == InitTerms /\ [][TermsNext]_vars

SpecWhitelist == InitWhitelist /\ [][WhitelistNext]_vars

SpecAuction == InitAuction /\ [][AuctionNext]_vars

SpecCalc == InitCalc /\ [][CalcNext]_vars

SpecLoader == InitLoader /\ [][LoaderNext]_vars

====
